---------------------------- MODULE Spec2Model ----------------------------
(***************************************************************************)
(* Model of pkg/proxy/kubernetes.go: the routing tables of the service     *)
(* proxy (services, pathHandlers, endpoints), the handlers of the watch    *)
(* events that maintain them, and the request dispatcher that reads them.  *)
(*                                                                         *)
(* Go strings are sequences of one-character strings, so that prefix       *)
(* tests, slicing and number parsing are computed as the code computes     *)
(* them.  http.Handler values are pointers; a handler is modelled by a     *)
(* positive number, its address, and the nil handler by 0.                 *)
(***************************************************************************)
EXTENDS Integers, Sequences, FiniteSets, TLC

(***************************************************************************)
(* Bounds of the model.                                                    *)
(***************************************************************************)
\* the number of proxy handlers that may be in use at one time
MaxHandlers == 3

(***************************************************************************)
(* Strings.                                                                *)
(***************************************************************************)
EmptyString == << >>

\* strings.HasPrefix(s, prefix)
HasPrefix(s, prefix) ==
    /\ Len(s) >= Len(prefix)
    /\ SubSeq(s, 1, Len(prefix)) = prefix

\* what a slice expression leaves when its start is beyond the end of the
\* string: the task panics (slice bounds out of range)
slicePanic == <<"panic: slice bounds out of range">>

\* s[n:] of a Go string (n counts from 0)
SliceFrom(s, n) == IF n > Len(s) THEN slicePanic ELSE SubSeq(s, n + 1, Len(s))

IsDigit(c) == c \in {"0", "1", "2", "3", "4", "5", "6", "7", "8", "9"}

\* c - '0' of a digit
DigitVal(c) ==
    CASE c = "0" -> 0 [] c = "1" -> 1 [] c = "2" -> 2 [] c = "3" -> 3
      [] c = "4" -> 4 [] c = "5" -> 5 [] c = "6" -> 6 [] c = "7" -> 7
      [] c = "8" -> 8 [] c = "9" -> 9

(***************************************************************************)
(* 32-bit arithmetic on two 16-bit limbs <<hi, lo>>: the value of a        *)
(* decimal numeral modulo 2^32, and its reading as an int32.               *)
(***************************************************************************)
Limb == 65536

RECURSIVE DecimalMod32(_, _)
DecimalMod32(s, acc) ==
    IF s = << >> THEN acc
    ELSE LET lo == acc[2] * 10 + DigitVal(Head(s))
             hi == acc[1] * 10 + (lo \div Limb)
         IN  DecimalMod32(Tail(s), <<hi % Limb, lo % Limb>>)

NegMod32(v) ==
    IF v = <<0, 0>> THEN v
    ELSE <<(Limb - 1 - v[1] + (IF v[2] = 0 THEN 1 ELSE 0)) % Limb,
           (Limb - v[2]) % Limb>>

\* int32(x) of the value whose low 32 bits are v
ToInt32(v) ==
    IF v[1] >= Limb \div 2 THEN (v[1] - Limb) * Limb + v[2]
    ELSE v[1] * Limb + v[2]

(***************************************************************************)
(* The size of a decimal numeral, by its digits: the numbers of int64 and  *)
(* uint32 are compared as strings of digits.                               *)
(***************************************************************************)
\* a numeral without its leading zeros
RECURSIVE TrimZeros(_)
TrimZeros(s) ==
    IF Len(s) > 1 /\ Head(s) = "0" THEN TrimZeros(Tail(s)) ELSE s

\* a <= b for two strings of digits of the same length
RECURSIVE DigitsAtMost(_, _)
DigitsAtMost(a, b) ==
    IF a = << >> THEN TRUE
    ELSE IF Head(a) = Head(b) THEN DigitsAtMost(Tail(a), Tail(b))
    ELSE DigitVal(Head(a)) < DigitVal(Head(b))

\* the value of the numeral s is at most the value of the numeral max
NumeralAtMost(s, max) ==
    LET a == TrimZeros(s)
        b == TrimZeros(max)
    IN  \/ Len(a) < Len(b)
        \/ Len(a) = Len(b) /\ DigitsAtMost(a, b)

\* 1<<63 - 1, 1<<63 and 1<<32 - 1
MaxInt64 ==
    <<"9", "2", "2", "3", "3", "7", "2", "0", "3", "6", "8", "5", "4", "7", "7",
      "5", "8", "0", "7">>
MinInt64Magnitude ==
    <<"9", "2", "2", "3", "3", "7", "2", "0", "3", "6", "8", "5", "4", "7", "7",
      "5", "8", "0", "8">>
MaxUint32 == <<"4", "2", "9", "4", "9", "6", "7", "2", "9", "5">>

(***************************************************************************)
(* strconv.Atoi of the 64-bit build: an optional sign, then one or more    *)
(* decimal digits.  A string shorter than 19 characters takes the fast     *)
(* path and is always in range; a longer one goes to ParseInt(s, 10, 0),   *)
(* which returns a range error for a value outside int64.                  *)
(***************************************************************************)
HasSign(s) == Len(s) > 0 /\ s[1] \in {"-", "+"}

Unsigned(s) == IF HasSign(s) THEN Tail(s) ELSE s

AtoiOk(s) ==
    /\ Len(s) > 0
    /\ Len(Unsigned(s)) > 0
    /\ \A i \in 1..Len(Unsigned(s)) : IsDigit(Unsigned(s)[i])
    /\ NumeralAtMost(Unsigned(s),
                     IF s[1] = "-" THEN MinInt64Magnitude ELSE MaxInt64)

\* int32(p) for the p that strconv.Atoi returns on s
AtoiInt32(s) ==
    LET mag == DecimalMod32(Unsigned(s), <<0, 0>>)
    IN  ToInt32(IF s[1] = "-" THEN NegMod32(mag) ELSE mag)


(***************************************************************************)
(* Constants of the package.                                               *)
(***************************************************************************)
\* "/k8s-svc-proxy/"
SvcProxyHTTPPath ==
    <<"/", "k", "8", "s", "-", "s", "v", "c", "-", "p", "r", "o", "x", "y", "/">>

SvcProxyAnnotationPath == "k8s-svc-proxy.local/path"
SvcProxyAnnotationPort == "k8s-svc-proxy.local/port"
SvcProxyAnnotationMap == "k8s-svc-proxy.local/map"
SvcProxyAnnotationDescription == "k8s-svc-proxy.local/description"
SvcProxyAnnotationEndpoint == "k8s-svc-proxy.local/endpoint-port"

\* SvcProxyHTTPPath + "services", SvcProxyHTTPPath + "endpoints"
serviceDiscoveryPage ==
    SvcProxyHTTPPath \o <<"s", "e", "r", "v", "i", "c", "e", "s">>
endpointDiscoveryPage ==
    SvcProxyHTTPPath \o <<"e", "n", "d", "p", "o", "i", "n", "t", "s">>

\* "/endpoint/"
endpointPath == <<"/", "e", "n", "d", "p", "o", "i", "n", "t", "/">>

\* the port that getServicePort does not select from a single declared port
DefaultHTTPPort == 80

\* the largest endpoint port, uint64(^uint16(0))
MaxUint16 == 65535

(***************************************************************************)
(* A v1.Service as the proxy reads it: namespace, name, the annotation map *)
(* (a function on the keys that are present) and the ports of its spec.    *)
(***************************************************************************)
\* svc.Namespace + "/" + svc.Name
SvcID(svc) == <<svc.Namespace, svc.Name>>

HasAnnotation(svc, key) == key \in DOMAIN svc.Annotations

(***************************************************************************)
(* svcEndpoint, the route of a service.  NilEndpoint is the nil pointer     *)
(* and NilHandler the nil http.Handler.                                     *)
(***************************************************************************)
NilHandler == 0

NilEndpoint == [nil |-> TRUE]

\* getServicePort: <<port, isSet>>
getServicePort(svc) ==
    IF HasAnnotation(svc, SvcProxyAnnotationPort)
    THEN LET port == svc.Annotations[SvcProxyAnnotationPort]
         IN  IF ~AtoiOk(port) THEN <<-1, FALSE>>
             ELSE <<AtoiInt32(port), TRUE>>
    ELSE IF Len(svc.Ports) = 1 /\ svc.Ports[1] # DefaultHTTPPort
         THEN <<svc.Ports[1], TRUE>>
         ELSE <<-1, FALSE>>

\* a variant of makeSvcEndpoint that accepts a path under SvcProxyHTTPPath
makeSvcEndpointAllowsReserved(svc) ==
    IF ~HasAnnotation(svc, SvcProxyAnnotationPath) THEN NilEndpoint
    ELSE LET port == getServicePort(svc) IN
         [Path |-> svc.Annotations[SvcProxyAnnotationPath],
          Port |-> IF port[2] THEN port[1] ELSE -1,
          Map |-> IF HasAnnotation(svc, SvcProxyAnnotationMap)
                  THEN svc.Annotations[SvcProxyAnnotationMap] ELSE EmptyString,
          Description |-> IF HasAnnotation(svc, SvcProxyAnnotationDescription)
                          THEN svc.Annotations[SvcProxyAnnotationDescription]
                          ELSE EmptyString,
          handler |-> NilHandler]

\* makeSvcEndpoint: the route computed from the annotations, handler unset
makeSvcEndpoint(svc) ==
    IF ~HasAnnotation(svc, SvcProxyAnnotationPath) THEN NilEndpoint
    ELSE IF HasPrefix(svc.Annotations[SvcProxyAnnotationPath], SvcProxyHTTPPath)
    THEN NilEndpoint
    ELSE LET port == getServicePort(svc) IN
         [Path |-> svc.Annotations[SvcProxyAnnotationPath],
          Port |-> IF port[2] THEN port[1] ELSE -1,
          Map |-> IF HasAnnotation(svc, SvcProxyAnnotationMap)
                  THEN svc.Annotations[SvcProxyAnnotationMap] ELSE EmptyString,
          Description |-> IF HasAnnotation(svc, SvcProxyAnnotationDescription)
                          THEN svc.Annotations[SvcProxyAnnotationDescription]
                          ELSE EmptyString,
          handler |-> NilHandler]

\* reflect.DeepEqual of two *svcEndpoint: every field is compared, the
\* unexported handler included
DeepEqual(a, b) == a = b

\* endpoint with endpoint.handler = h
WithHandler(endpoint, h) == [endpoint EXCEPT !.handler = h]

(***************************************************************************)
(* Lists of handlers and the two route tables.  A Go map is a function on  *)
(* the keys that are present.                                              *)
(***************************************************************************)
MapDelete(m, key) == [k \in DOMAIN m \ {key} |-> m[k]]

MapSet(m, key, val) == [k \in DOMAIN m \cup {key} |-> IF k = key THEN val ELSE m[k]]

\* m[key] of a map of slices: the nil slice when the key is absent
ListAt(m, key) == IF key \in DOMAIN m THEN m[key] ELSE << >>

Elems(list) == {list[i] : i \in 1..Len(list)}

\* a variant of handlerListRemove that shortens the list without moving the
\* last element to the place of the one it removes
handlerListRemoveLast(list, element) ==
    IF element \notin Elems(list) THEN list
    ELSE SubSeq(list, 1, Len(list) - 1)

\* handlerListRemove: the first occurrence of element is overwritten by the
\* last element and the list is shortened by one
handlerListRemove(list, element) ==
    IF element \notin Elems(list) THEN list
    ELSE LET i == CHOOSE j \in 1..Len(list) :
                      /\ list[j] = element
                      /\ \A l \in 1..(j - 1) : list[l] # element
         IN  SubSeq([list EXCEPT ![i] = list[Len(list)]], 1, Len(list) - 1)


(***************************************************************************)
(* The proxy k8sServiceProxy is a record k of its three maps.  Every       *)
(* operation below is the function of the same name, taking the proxy      *)
(* before the call and returning the proxy after it.  h is the handler     *)
(* that newProxyHandler returns when the call reaches it.                  *)
(***************************************************************************)
\* k.services[svcID]: the nil pointer when the key is absent
ServiceAt(k, id) == IF id \in DOMAIN k.services THEN k.services[id] ELSE NilEndpoint

\* serviceAdd returns before it builds a handler (lines 311-313, 320-322)
serviceAddReturns(k, svc) ==
    LET endpoint == makeSvcEndpoint(svc)
    IN  \/ endpoint = NilEndpoint
        \/ /\ SvcID(svc) \in DOMAIN k.services
           /\ DeepEqual(endpoint, k.services[SvcID(svc)])

\* a variant of serviceAdd up to k.Lock() that truncates the handler list
\* of the new path and leaves its key in the map
serviceAddUnlockedTruncates(k, svc) ==
    IF SvcID(svc) \in DOMAIN k.services /\ ~serviceAddReturns(k, svc)
    THEN [k EXCEPT !.pathHandlers = MapSet(@, makeSvcEndpoint(svc).Path, << >>)]
    ELSE k
\* serviceAdd up to k.Lock(): for a service that has a route already, the
\* handler list of the new path is deleted from the map (line 323)
serviceAddUnlocked(k, svc) ==
    IF SvcID(svc) \in DOMAIN k.services /\ ~serviceAddReturns(k, svc)
    THEN [k EXCEPT !.pathHandlers = MapDelete(@, makeSvcEndpoint(svc).Path)]
    ELSE k

\* serviceAdd from k.Lock() on (lines 333-336)
serviceAddLocked(k, svc, h) ==
    LET endpoint == WithHandler(makeSvcEndpoint(svc), h)
    IN  [k EXCEPT
           !.pathHandlers = MapSet(@, endpoint.Path,
                                   Append(ListAt(@, endpoint.Path), h)),
           !.services = MapSet(@, SvcID(svc), endpoint)]

\* a variant of serviceAdd that removes the route of a service whose object
\* yields none
serviceAddDeletesUnroutable(k, svc, h) ==
    IF makeSvcEndpoint(svc) = NilEndpoint
    THEN [k EXCEPT
            !.services = MapDelete(@, SvcID(svc)),
            !.pathHandlers = [p \in DOMAIN @ |->
                                 IF SvcID(svc) \in DOMAIN k.services
                                 THEN SelectSeq(@[p], LAMBDA x :
                                         x # k.services[SvcID(svc)].handler)
                                 ELSE @[p]]]
    ELSE IF serviceAddReturns(k, svc) THEN k
    ELSE serviceAddLocked(serviceAddUnlocked(k, svc), svc, h)

serviceAdd(k, svc, h) ==
    IF serviceAddReturns(k, svc) THEN k
    ELSE serviceAddLocked(serviceAddUnlocked(k, svc), svc, h)

\* a variant of serviceDelete that keeps the key of a list that became empty
serviceDeleteKeepsKey(k, svc) ==
    IF SvcID(svc) \in DOMAIN k.services
    THEN LET endpoint == k.services[SvcID(svc)]
             list == handlerListRemove(ListAt(k.pathHandlers, endpoint.Path),
                                       endpoint.handler)
         IN  [k EXCEPT
                !.services = MapDelete(@, SvcID(svc)),
                !.pathHandlers = MapSet(@, endpoint.Path, list)]
    ELSE k

serviceDelete(k, svc) ==
    IF SvcID(svc) \in DOMAIN k.services
    THEN LET endpoint == k.services[SvcID(svc)]
             list == handlerListRemove(ListAt(k.pathHandlers, endpoint.Path),
                                       endpoint.handler)
         IN  [k EXCEPT
                !.services = MapDelete(@, SvcID(svc)),
                !.pathHandlers = IF Len(list) = 0
                                 THEN MapDelete(@, endpoint.Path)
                                 ELSE MapSet(@, endpoint.Path, list)]
    ELSE k

\* a variant of the critical section of serviceChange that leaves the old
\* handler in the list of the old path
serviceChangeLockedKeepsOld(k, svc, h) ==
    LET endpoint == WithHandler(makeSvcEndpoint(svc), h)
    IN  [k EXCEPT
           !.pathHandlers = MapSet(@, endpoint.Path,
                                   Append(ListAt(@, endpoint.Path), h)),
           !.services = MapSet(@, SvcID(svc), endpoint)]

\* a variant of the critical section of serviceChange that keeps the key
\* of the old path when its list became empty
serviceChangeLockedKeepsKey(k, svc, h) ==
    LET prev == k.services[SvcID(svc)]
        endpoint == WithHandler(makeSvcEndpoint(svc), h)
        removed == MapSet(k.pathHandlers, prev.Path,
                          handlerListRemove(ListAt(k.pathHandlers, prev.Path),
                                            prev.handler))
    IN  [k EXCEPT
           !.pathHandlers = MapSet(removed, endpoint.Path,
                                   Append(ListAt(removed, endpoint.Path), h)),
           !.services = MapSet(@, SvcID(svc), endpoint)]

\* a variant of the critical section of serviceChange that appends the new
\* handler to the list of the old path
serviceChangeLockedAppendsOld(k, svc, h) ==
    LET prev == k.services[SvcID(svc)]
        endpoint == WithHandler(makeSvcEndpoint(svc), h)
        removed == handlerListRemove(ListAt(k.pathHandlers, prev.Path),
                                     prev.handler)
    IN  [k EXCEPT
           !.pathHandlers = MapSet(@, prev.Path, Append(removed, h)),
           !.services = MapSet(@, SvcID(svc), endpoint)]
\* the critical section of serviceChange (lines 366-373)
serviceChangeLocked(k, svc, h) ==
    LET prev == k.services[SvcID(svc)]
        endpoint == WithHandler(makeSvcEndpoint(svc), h)
        removed == MapSet(k.pathHandlers, prev.Path,
                          handlerListRemove(ListAt(k.pathHandlers, prev.Path),
                                            prev.handler))
        added == MapSet(removed, endpoint.Path,
                        Append(ListAt(removed, endpoint.Path), h))
    IN  [k EXCEPT
           !.pathHandlers = IF Len(added[prev.Path]) = 0
                            THEN MapDelete(added, prev.Path)
                            ELSE added,
           !.services = MapSet(@, SvcID(svc), endpoint)]

\* a variant of serviceChange that keeps the route of a service whose
\* object no longer yields one
serviceChangeKeepsRoute(k, svc, h) ==
    LET prev == ServiceAt(k, SvcID(svc))
        endpoint == makeSvcEndpoint(svc)
    IN  IF prev # NilEndpoint /\ endpoint # NilEndpoint
        THEN IF DeepEqual(prev, endpoint) THEN k
             ELSE serviceChangeLocked(k, svc, h)
        ELSE IF endpoint # NilEndpoint THEN serviceAdd(k, svc, h)
        ELSE k

serviceChange(k, svc, h) ==
    LET prev == ServiceAt(k, SvcID(svc))
        endpoint == makeSvcEndpoint(svc)
    IN  IF prev # NilEndpoint /\ endpoint # NilEndpoint
        THEN IF DeepEqual(prev, endpoint) THEN k
             ELSE serviceChangeLocked(k, svc, h)
        ELSE IF endpoint # NilEndpoint THEN serviceAdd(k, svc, h)
        ELSE IF prev # NilEndpoint THEN serviceDelete(k, svc)
        ELSE k

(***************************************************************************)
(* The endpoint port of a service: endpointData.Port, 0 when disabled.     *)
(***************************************************************************)
\* the value of a decimal numeral, cut off above MaxUint16
RECURSIVE DecimalUpTo16(_, _)
DecimalUpTo16(s, acc) ==
    IF s = << >> THEN acc
    ELSE LET v == acc * 10 + DigitVal(Head(s))
         IN  DecimalUpTo16(Tail(s), IF v > MaxUint16 THEN MaxUint16 + 1 ELSE v)

\* the syntax of strconv.ParseUint(s, 10, 32): one or more digits, no sign
ParseUintSyntaxOk(s) ==
    /\ Len(s) > 0
    /\ \A i \in 1..Len(s) : IsDigit(s[i])

\* strconv.ParseUint(s, 10, 32) returns no error: the syntax is right and
\* the value is at most 1<<32 - 1
ParseUintOk(s) == ParseUintSyntaxOk(s) /\ NumeralAtMost(s, MaxUint32)

getEndpointPort(svc) ==
    IF ~HasAnnotation(svc, SvcProxyAnnotationEndpoint) THEN -1
    ELSE LET endpointPort == svc.Annotations[SvcProxyAnnotationEndpoint]
         IN  IF ~ParseUintOk(endpointPort) THEN -1
             ELSE IF DecimalUpTo16(endpointPort, 0) > MaxUint16 THEN -1
             ELSE DecimalUpTo16(endpointPort, 0)

\* &endpointData{}
NewEndpointData == [Port |-> 0, endpoints |-> << >>]

setEndpointPort(k, svc, port) ==
    LET data == IF SvcID(svc) \in DOMAIN k.endpoints
                THEN k.endpoints[SvcID(svc)] ELSE NewEndpointData
    IN  [k EXCEPT !.endpoints = MapSet(@, SvcID(svc), [data EXCEPT !.Port = port])]

deleteEndpointPort(k, svc) ==
    IF SvcID(svc) \in DOMAIN k.endpoints
    THEN [k EXCEPT !.endpoints[SvcID(svc)].Port = 0]
    ELSE k

addEndpointPort(k, svc) ==
    IF getEndpointPort(svc) <= 0 THEN k
    ELSE setEndpointPort(k, svc, getEndpointPort(svc))

updateEndpointPort(k, svc) ==
    IF getEndpointPort(svc) > 0
    THEN setEndpointPort(k, svc, getEndpointPort(svc))
    ELSE deleteEndpointPort(k, svc)


(***************************************************************************)
(* The pods of a service: endpointData.endpoints, a list of podEndpoint    *)
(* sorted by pod name.  A v1.Endpoints object is a record of namespace,    *)
(* name and subsets; a subset has the lists Addresses and                  *)
(* NotReadyAddresses; an address has an IP and a TargetRef (NilRef when    *)
(* it is the nil pointer).                                                 *)
(***************************************************************************)
NilRef == [nil |-> TRUE]

\* the nil http.Handler of a podEndpoint
NilProxy == [nil |-> TRUE]

\* the characters of pod names in the order of their bytes
Alphabet ==
    <<"-", "0", "1", "2", "3", "4", "5", "6", "7", "8", "9",
      "a", "b", "c", "d", "e", "f", "g", "h", "i", "j", "k", "l", "m",
      "n", "o", "p", "q", "r", "s", "t", "u", "v", "w", "x", "y", "z">>

CharCode(c) == CHOOSE i \in 1..Len(Alphabet) : Alphabet[i] = c

\* a < b of two Go strings
RECURSIVE StringLess(_, _)
StringLess(a, b) ==
    IF b = << >> THEN FALSE
    ELSE IF a = << >> THEN TRUE
    ELSE IF Head(a) = Head(b) THEN StringLess(Tail(a), Tail(b))
    ELSE CharCode(Head(a)) < CharCode(Head(b))

\* podEndpointSorter.Less and podEndpointSorter.Swap; as in Go, the first
\* element has the index 0
Less(data, i, j) == StringLess(data[i + 1].PodName, data[j + 1].PodName)

Swap(data, i, j) == [data EXCEPT ![i + 1] = data[j + 1], ![j + 1] = data[i + 1]]

(***************************************************************************)
(* sort.Sort of the Go 1.13 library, which the module is built with: a     *)
(* quicksort that turns to a heapsort when it recursed maxDepth times, and *)
(* that sorts 12 elements or fewer by one pass of a shell sort with gap 6  *)
(* and an insertion sort.  It is not stable.  The bounds a, b, lo and hi   *)
(* are those of Go: data[a:b].                                             *)
(***************************************************************************)
\* TRUE.  The model checker evaluates the list d here and not inside the
\* calls that follow, which keeps its evaluation of the loops shallow
Evaluated(d) == Len(d) >= 0

\* insertionSort: the inner loop, which moves element j down while it is
\* less than the one before it
RECURSIVE InsertDown(_, _, _)
InsertDown(data, j, a) ==
    IF j > a /\ Less(data, j, j - 1) THEN InsertDown(Swap(data, j, j - 1), j - 1, a)
    ELSE data

\* ... and the outer loop from element i on
RECURSIVE InsertionSortFrom(_, _, _, _)
InsertionSortFrom(data, i, a, b) ==
    IF Evaluated(data) /\ i < b
    THEN InsertionSortFrom(InsertDown(data, i, a), i + 1, a, b)
    ELSE data

insertionSort(data, a, b) == InsertionSortFrom(data, a + 1, a, b)

\* the greater child of the root in the heap data[first : first+hi]
GreaterChild(data, root, hi, first) ==
    IF /\ 2 * root + 2 < hi
       /\ Less(data, first + 2 * root + 1, first + 2 * root + 2)
    THEN 2 * root + 2
    ELSE 2 * root + 1

\* siftDown, from the root lo on
RECURSIVE siftDown(_, _, _, _)
siftDown(data, lo, hi, first) ==
    IF 2 * lo + 1 >= hi THEN data
    ELSE IF ~Less(data, first + lo, first + GreaterChild(data, lo, hi, first))
    THEN data
    ELSE siftDown(Swap(data, first + lo, first + GreaterChild(data, lo, hi, first)),
                  GreaterChild(data, lo, hi, first), hi, first)

\* heapSort: the loop that builds the heap, from element i down
RECURSIVE HeapFrom(_, _, _, _)
HeapFrom(data, i, hi, first) ==
    IF Evaluated(data) /\ i >= 0
    THEN HeapFrom(siftDown(data, i, hi, first), i - 1, hi, first)
    ELSE data

\* ... and the loop that pops the elements, from element i down
RECURSIVE PopFrom(_, _, _)
PopFrom(data, i, first) ==
    IF Evaluated(data) /\ i >= 0
    THEN PopFrom(siftDown(Swap(data, first, first + i), 0, i, first), i - 1, first)
    ELSE data

heapSort(data, a, b) == PopFrom(HeapFrom(data, (b - a - 1) \div 2, b - a, a), b - a - 1, a)

\* if data.Less(m1, m0) { data.Swap(m1, m0) }
SwapIfLess(data, m1, m0) == IF Less(data, m1, m0) THEN Swap(data, m1, m0) ELSE data

\* the second test of medianOfThree
MedianOfSorted(data, m1, m0, m2) ==
    IF Less(data, m2, m1) THEN SwapIfLess(Swap(data, m2, m1), m1, m0) ELSE data

medianOfThree(data, m1, m0, m2) == MedianOfSorted(SwapIfLess(data, m1, m0), m1, m0, m2)

\* doPivot: the median of three medians of three, for more than 40
\* elements; s is (hi - lo) / 8 and m the middle
Ninther(data, lo, hi, m, s) ==
    IF hi - lo > 40
    THEN medianOfThree(
             medianOfThree(
                 medianOfThree(data, lo, lo + s, lo + 2 * s),
                 m, m - s, m + s),
             hi - 1, hi - 1 - s, hi - 1 - 2 * s)
    ELSE data

\* ... the choice of the pivot, which goes to data[lo]
ChoosePivot(data, lo, hi) ==
    medianOfThree(Ninther(data, lo, hi, (lo + hi) \div 2, (hi - lo) \div 8),
                  lo, (lo + hi) \div 2, hi - 1)

\* for ; a < c && data.Less(a, pivot); a++
RECURSIVE SkipLess(_, _, _, _)
SkipLess(data, a, c, pivot) ==
    IF a < c /\ Less(data, a, pivot) THEN SkipLess(data, a + 1, c, pivot) ELSE a

\* for ; b < c && !data.Less(pivot, b); b++
RECURSIVE SkipNotGreater(_, _, _, _)
SkipNotGreater(data, b, c, pivot) ==
    IF b < c /\ ~Less(data, pivot, b) THEN SkipNotGreater(data, b + 1, c, pivot) ELSE b

\* for ; b < c && data.Less(pivot, c-1); c--
RECURSIVE SkipGreater(_, _, _, _)
SkipGreater(data, b, c, pivot) ==
    IF b < c /\ Less(data, pivot, c - 1) THEN SkipGreater(data, b, c - 1, pivot) ELSE c

\* for ; a < b && !data.Less(b-1, pivot); b--
RECURSIVE SkipEqual(_, _, _, _)
SkipEqual(data, a, b, pivot) ==
    IF a < b /\ ~Less(data, b - 1, pivot) THEN SkipEqual(data, a, b - 1, pivot) ELSE b

\* ... the loop that swaps data[b] and data[c-1], after the two loops that
\* moved b to b1 and c to c1
RECURSIVE Partition(_, _, _, _, _)
PartitionSwap(data, a, b1, c1, pivot) ==
    IF b1 >= c1 THEN [data |-> data, a |-> a, b |-> b1, c |-> c1]
    ELSE Partition(Swap(data, b1, c1 - 1), a, b1 + 1, c1 - 1, pivot)

PartitionSkip(data, a, b1, c, pivot) ==
    PartitionSwap(data, a, b1, SkipGreater(data, b1, c, pivot), pivot)

Partition(data, a, b, c, pivot) ==
    PartitionSkip(data, a, SkipNotGreater(data, b, c, pivot), c, pivot)

\* ... the three tests for elements equal to the pivot; p holds data, a, b,
\* c and dups
DupHigh(p, pivot, hi) ==
    IF ~Less(p.data, pivot, hi - 1)
    THEN [p EXCEPT !.data = Swap(@, p.c, hi - 1), !.c = @ + 1, !.dups = @ + 1]
    ELSE p

DupLow(p, pivot) ==
    IF ~Less(p.data, p.b - 1, pivot) THEN [p EXCEPT !.b = @ - 1, !.dups = @ + 1]
    ELSE p

DupMid(p, pivot, m) ==
    IF ~Less(p.data, m, pivot)
    THEN [p EXCEPT !.data = Swap(@, m, p.b - 1), !.b = @ - 1, !.dups = @ + 1]
    ELSE p

\* ... the value of protect, with the data, a, b and c it is reached with
ProtectOf(p) == [data |-> p.data, a |-> p.a, b |-> p.b, c |-> p.c,
                 protect |-> p.dups > 1]

Protect(p, lo, hi) ==
    IF ~(hi - p.c < 5) /\ hi - p.c < (hi - lo) \div 4
    THEN ProtectOf(DupMid(DupLow(DupHigh(p @@ [dups |-> 0], lo, hi), lo),
                          lo, (lo + hi) \div 2))
    ELSE p @@ [protect |-> hi - p.c < 5]

\* ... the loop that swaps data[a] and data[b-1], after the two loops that
\* moved b to b1 and a to a1
RECURSIVE Duplicates(_, _, _, _)
DuplicatesSwap(data, a1, b1, pivot) ==
    IF a1 >= b1 THEN [data |-> data, b |-> b1]
    ELSE Duplicates(Swap(data, a1, b1 - 1), a1 + 1, b1 - 1, pivot)

DuplicatesSkip(data, a, b1, pivot) ==
    DuplicatesSwap(data, SkipLess(data, a, b1, pivot), b1, pivot)

Duplicates(data, a, b, pivot) ==
    DuplicatesSkip(data, a, SkipEqual(data, a, b, pivot), pivot)

\* ... the pivot is swapped into the middle: data, midlo and midhi
PivotToMiddle(data, pivot, b, c) ==
    [data |-> Swap(data, pivot, b - 1), midlo |-> b - 1, midhi |-> c]

Protected(p, pivot) ==
    IF p.protect
    THEN PivotToMiddle(Duplicates(p.data, p.a, p.b, pivot).data, pivot,
                       Duplicates(p.data, p.a, p.b, pivot).b, p.c)
    ELSE PivotToMiddle(p.data, pivot, p.b, p.c)

Partitioned(data, a, lo, hi) == Partition(data, a, a, hi - 1, lo)

Pivoted(data, lo, hi) == Partitioned(data, SkipLess(data, lo + 1, hi - 1, lo), lo, hi)

doPivot(data, lo, hi) ==
    Protected(Protect(Pivoted(ChoosePivot(data, lo, hi), lo, hi), lo, hi), lo)

\* quickSort: for i := a + 6; i < b; i++
RECURSIVE ShellFrom(_, _, _)
ShellFrom(data, i, b) ==
    IF i < b THEN ShellFrom(SwapIfLess(data, i, i - 6), i + 1, b) ELSE data

\* ... the two halves that doPivot left, the shorter one first
RECURSIVE quickSort(_, _, _, _)
QuickSortHalves(p, a, b, depth) ==
    IF p.midlo - a < b - p.midhi
    THEN quickSort(quickSort(p.data, a, p.midlo, depth), p.midhi, b, depth)
    ELSE quickSort(quickSort(p.data, p.midhi, b, depth), a, p.midlo, depth)

quickSort(data, a, b, depth) ==
    IF b - a > 12
    THEN IF depth = 0 THEN heapSort(data, a, b)
         ELSE QuickSortHalves(doPivot(data, a, b), a, b, depth - 1)
    ELSE IF b - a > 1 THEN insertionSort(ShellFrom(data, a + 6, b), a, b)
    ELSE data

\* maxDepth: twice the number of bits of n
RECURSIVE maxDepth(_)
maxDepth(n) == IF n > 0 THEN 2 + maxDepth(n \div 2) ELSE 0

\* sort.Sort(podEndpointSorter(data))
SortByPodName(data) == quickSort(data, 0, Len(data), maxDepth(Len(data)))

makeEndpointSubList(addresses) ==
    [i \in 1..Len(addresses) |->
        [IP |-> addresses[i].IP,
         PodName |-> IF /\ addresses[i].TargetRef # NilRef
                        /\ addresses[i].TargetRef.Kind = "Pod"
                     THEN addresses[i].TargetRef.Name
                     ELSE EmptyString,
         handler |-> NilProxy]]

\* the loop of makeEndpointList over the subsets
RECURSIVE AppendSubsets(_, _)
AppendSubsets(endpoints, subsets) ==
    IF subsets = << >> THEN endpoints
    ELSE AppendSubsets(endpoints
                          \o makeEndpointSubList(Head(subsets).Addresses)
                          \o makeEndpointSubList(Head(subsets).NotReadyAddresses),
                       Tail(subsets))

\* makeEndpointList without the sort
makeEndpointListUnsorted(endpoint) == AppendSubsets(<< >>, endpoint.Subsets)

makeEndpointList(endpoint) ==
    SortByPodName(AppendSubsets(<< >>, endpoint.Subsets))

\* a variant of setEndpointList that stores a fresh endpointData
setEndpointListFresh(k, endpointObj, endpointList) ==
    [k EXCEPT !.endpoints =
        MapSet(@, SvcID(endpointObj), [NewEndpointData EXCEPT !.endpoints = endpointList])]

setEndpointList(k, endpointObj, endpointList) ==
    LET data == IF SvcID(endpointObj) \in DOMAIN k.endpoints
                THEN k.endpoints[SvcID(endpointObj)] ELSE NewEndpointData
    IN  [k EXCEPT !.endpoints =
            MapSet(@, SvcID(endpointObj), [data EXCEPT !.endpoints = endpointList])]

endpointUpdate(k, endpoint) == setEndpointList(k, endpoint, makeEndpointList(endpoint))

\* the list is nil
endpointDelete(k, endpoint) == setEndpointList(k, endpoint, << >>)

(***************************************************************************)
(* Requests for a pod, /endpoint/<namespace>/<service>/<index>/<path>.     *)
(***************************************************************************)
\* http.StatusNotFound
StatusNotFound == 404

\* the position of the first "/" of s, 0 if there is none
IndexSlash(s) ==
    IF \E i \in 1..Len(s) : s[i] = "/"
    THEN CHOOSE i \in 1..Len(s) : s[i] = "/" /\ \A j \in 1..(i - 1) : s[j] # "/"
    ELSE 0

\* strings.SplitN(s, "/", n) for n > 0
RECURSIVE SplitN(_, _)
SplitN(s, n) ==
    IF n = 1 \/ IndexSlash(s) = 0 THEN <<s>>
    ELSE <<SubSeq(s, 1, IndexSlash(s) - 1)>>
            \o SplitN(SubSeq(s, IndexSlash(s) + 1, Len(s)), n - 1)

\* The namespace and the name of an object are atoms of the model; the
\* segments of a request path are strings.  NameOf is the atom that a
\* segment spells, "" if it spells the name of no object.
NameOf(s) ==
    CASE s = <<"d", "e", "f", "a", "u", "l", "t">> -> "default"
      [] s = <<"f", "o", "o">> -> "foo"
      [] s = <<"b", "a", "r">> -> "bar"
      [] OTHER -> ""

\* strings.Join(parts[1:3], "/"), as a key of k.endpoints
EndpointKey(parts) == <<NameOf(parts[2]), NameOf(parts[3])>>

\* makeEndpointProxy: the handler is its director, a closure over scheme
\* and host
makeEndpointProxy(scheme, host) == [scheme |-> scheme, host |-> host]

\* a variant of the director that leaves the path of the request as it is
directorKeepsPath(handler, path) ==
    [Scheme |-> IF handler.scheme = "" THEN "http" ELSE handler.scheme,
     Host |-> handler.host,
     Path |-> path]

\* the director of makeEndpointProxy (lines 112-124): the URL of the
\* request that goes to the backend
director(handler, path) ==
    [Scheme |-> IF handler.scheme = "" THEN "http" ELSE handler.scheme,
     Host |-> handler.host,
     Path |-> <<"/">> \o SplitN(Tail(path), 5)[5]]

\* fmt.Sprintf("%s:%d", endpoint.IP, data.Port)
HostPort(ip, port) == <<ip, port>>

\* a variant of getEndpointWithHandler that does not look at the port
getEndpointWithHandlerAnyPort(k, key, id, scheme) ==
    IF key \notin DOMAIN k.endpoints
    THEN [k |-> k, endpoint |-> NilEndpoint]
    ELSE IF id >= Len(k.endpoints[key].endpoints)
    THEN [k |-> k, endpoint |-> NilEndpoint]
    ELSE LET data == k.endpoints[key]
             endpoint == data.endpoints[id + 1]
             handler == IF endpoint.handler = NilProxy
                        THEN makeEndpointProxy(scheme, HostPort(endpoint.IP, data.Port))
                        ELSE endpoint.handler
         IN  [k |-> [k EXCEPT !.endpoints[key].endpoints[id + 1].handler = handler],
              endpoint |-> [endpoint EXCEPT !.handler = handler]]

\* a variant of getEndpointWithHandler that builds a handler at every call
getEndpointWithHandlerRebuilds(k, key, id, scheme) ==
    IF key \notin DOMAIN k.endpoints
    THEN [k |-> k, endpoint |-> NilEndpoint]
    ELSE IF k.endpoints[key].Port <= 0
    THEN [k |-> k, endpoint |-> NilEndpoint]
    ELSE IF id >= Len(k.endpoints[key].endpoints)
    THEN [k |-> k, endpoint |-> NilEndpoint]
    ELSE LET data == k.endpoints[key]
             endpoint == data.endpoints[id + 1]
             handler == makeEndpointProxy(scheme, HostPort(endpoint.IP, data.Port))
         IN  [k |-> [k EXCEPT !.endpoints[key].endpoints[id + 1].handler = handler],
              endpoint |-> [endpoint EXCEPT !.handler = handler]]

\* getEndpointWithHandler: the proxy after the call and the podEndpoint
\* returned (NilEndpoint for nil)
getEndpointWithHandler(k, key, id, scheme) ==
    IF key \notin DOMAIN k.endpoints
    THEN [k |-> k, endpoint |-> NilEndpoint]
    ELSE IF k.endpoints[key].Port <= 0
    THEN [k |-> k, endpoint |-> NilEndpoint]
    ELSE IF id >= Len(k.endpoints[key].endpoints)
    THEN [k |-> k, endpoint |-> NilEndpoint]
    ELSE LET data == k.endpoints[key]
             endpoint == data.endpoints[id + 1]
             handler == IF endpoint.handler = NilProxy
                        THEN makeEndpointProxy(scheme, HostPort(endpoint.IP, data.Port))
                        ELSE endpoint.handler
         IN  [k |-> [k EXCEPT !.endpoints[key].endpoints[id + 1].handler = handler],
              endpoint |-> [endpoint EXCEPT !.handler = handler]]

NotFound(k, path) ==
    [k |-> k,
     resp |-> [kind |-> "serveEndpoint", Path |-> path, status |-> StatusNotFound]]

\* serveEndpoint: the proxy after the request and the response.  The index
\* is read by strconv.ParseUint(parts[3], 10, 32); a value above MaxUint16
\* is cut off at MaxUint16 + 1, which is an index beyond every list of
\* the model.
serveEndpoint(k, path, scheme) ==
    LET parts == SplitN(Tail(path), 5)
    IN  IF Len(parts) < 5 THEN NotFound(k, path)
        ELSE IF ~ParseUintOk(parts[4]) THEN NotFound(k, path)
        ELSE LET got == getEndpointWithHandler(k, EndpointKey(parts),
                                               DecimalUpTo16(parts[4], 0), scheme)
             IN  IF got.endpoint = NilEndpoint THEN NotFound(k, path)
                 ELSE [k |-> got.k,
                       resp |-> [kind |-> "serveEndpoint", Path |-> path,
                                 status |-> 0,
                                 backend |-> director(got.endpoint.handler, path)]]

(***************************************************************************)
(* The dispatcher, k8sServiceProxy.ServeHTTP.                              *)
(***************************************************************************)
\* k.defaultHandler, a handler that is no proxy handler
defaultHandler == -1

\* what handler is after v[0] of an empty list: the request task panics
\* (index out of range) and the loop is left, bestMatch being the key
indexPanic == -2

\* scanPathHandlers without the comparison of lengths: the last matching key
\* of the iteration wins
RECURSIVE scanPathHandlersAnyMatch(_, _, _, _)
scanPathHandlersAnyMatch(pathHandlers, path, keys, best) ==
    IF keys = << >> THEN best
    ELSE LET key == Head(keys)
             v == pathHandlers[key]
         IN  IF HasPrefix(path, key) /\ Len(key) > 0
             THEN IF Len(v) = 0 THEN <<key, indexPanic>>
                  ELSE scanPathHandlersAnyMatch(pathHandlers, path, Tail(keys), <<key, v[1]>>)
             ELSE scanPathHandlersAnyMatch(pathHandlers, path, Tail(keys), best)

\* scanPathHandlers with >= in the comparison of lengths: a key as long as
\* the best match replaces it, the empty key included
RECURSIVE scanPathHandlersNoShorter(_, _, _, _)
scanPathHandlersNoShorter(pathHandlers, path, keys, best) ==
    IF keys = << >> THEN best
    ELSE LET key == Head(keys)
             v == pathHandlers[key]
         IN  IF HasPrefix(path, key) /\ Len(key) >= Len(best[1])
             THEN IF Len(v) = 0 THEN <<key, indexPanic>>
                  ELSE scanPathHandlersNoShorter(pathHandlers, path, Tail(keys), <<key, v[1]>>)
             ELSE scanPathHandlersNoShorter(pathHandlers, path, Tail(keys), best)

\* the loop of lines 193-198 over the keys in the order `keys`, from the
\* pair <<bestMatch, handler>>
RECURSIVE scanPathHandlers(_, _, _, _)
scanPathHandlers(pathHandlers, path, keys, best) ==
    IF keys = << >> THEN best
    ELSE LET key == Head(keys)
             v == pathHandlers[key]
         IN  IF HasPrefix(path, key) /\ Len(key) > Len(best[1])
             THEN IF Len(v) = 0 THEN <<key, indexPanic>>
                  ELSE scanPathHandlers(pathHandlers, path, Tail(keys), <<key, v[1]>>)
             ELSE scanPathHandlers(pathHandlers, path, Tail(keys), best)

\* the orders in which range may visit the keys of a map
KeyOrders(m) ==
    {o \in [1..Cardinality(DOMAIN m) -> DOMAIN m] :
        \A i, j \in DOMAIN o : i # j => o[i] # o[j]}

\* a variant of ServeHTTP that looks at the routes first and at the status
\* pages and the per-pod paths only if no registered path matches
DispatchRoutesFirst(k, path, keys) ==
    LET best == scanPathHandlers(k.pathHandlers, path, keys,
                                 <<EmptyString, defaultHandler>>)
    IN  IF best[1] # EmptyString
        THEN [Path |-> path, kind |-> "handler", match |-> best[1],
              handler |-> best[2]]
        ELSE IF path = serviceDiscoveryPage
        THEN [Path |-> path, kind |-> "serviceStatus", match |-> EmptyString,
              handler |-> NilHandler]
        ELSE IF path = endpointDiscoveryPage
        THEN [Path |-> path, kind |-> "endpointStatus", match |-> EmptyString,
              handler |-> NilHandler]
        ELSE IF HasPrefix(path, endpointPath)
        THEN [Path |-> path, kind |-> "serveEndpoint", match |-> EmptyString,
              handler |-> NilHandler]
        ELSE [Path |-> path, kind |-> "handler", match |-> best[1],
              handler |-> best[2]]

\* what ServeHTTP does with a request for `path` when range visits the keys
\* in the order `keys`
Dispatch(k, path, keys) ==
    IF path = serviceDiscoveryPage
    THEN [Path |-> path, kind |-> "serviceStatus", match |-> EmptyString,
          handler |-> NilHandler]
    ELSE IF path = endpointDiscoveryPage
    THEN [Path |-> path, kind |-> "endpointStatus", match |-> EmptyString,
          handler |-> NilHandler]
    ELSE IF HasPrefix(path, endpointPath)
    THEN [Path |-> path, kind |-> "serveEndpoint", match |-> EmptyString,
          handler |-> NilHandler]
    ELSE LET best == scanPathHandlers(k.pathHandlers, path, keys,
                                      <<EmptyString, defaultHandler>>)
         IN  [Path |-> path, kind |-> "handler", match |-> best[1],
              handler |-> best[2]]

\* r.URL.Scheme of a request in origin form (GET /path), the usual request
\* of a server; a request in absolute form (GET https://host/path) has the
\* scheme of its URL
NoScheme == ""

\* ServeHTTP as a whole: the proxy after the request and the response.  A
\* request under endpointPath is served by serveEndpoint (line 186), which
\* may store the handler of the pod, a closure over the scheme of the
\* request; no other request writes the proxy
Serve(k, path, scheme, keys) ==
    LET d == Dispatch(k, path, keys)
    IN  IF d.kind = "serveEndpoint"
        THEN [k |-> serveEndpoint(k, path, scheme).k,
              resp |-> serveEndpoint(k, path, scheme).resp @@ d]
        ELSE [k |-> k, resp |-> d]

(***************************************************************************)
(* State.                                                                  *)
(*   k          the proxy: pathHandlers, services, endpoints               *)
(*   pc         where the watch task is: "idle" between two events,        *)
(*              "serviceAdd" between line 323 and line 333 of serviceAdd,  *)
(*              or "endpointPort" between the two handlers of a service    *)
(*              event, whose critical sections are apart                   *)
(*   ev         the event being applied; between two events, the event    *)
(*              applied by the last step, if that was an event step        *)
(*   pre        the proxy as it was when ev was taken from the channel;    *)
(*              the proxy itself if there is no such event                 *)
(*   resp       what the last step resolved a request to, if it was a      *)
(*              request step                                               *)
(*   registrants  the services that have a route, in the order in which    *)
(*              they came to their present path                            *)
(*   lock       the holder of the mutex of the proxy, Unlocked if none     *)
(*   tasks      the position and the local variables of every task when    *)
(*              the steps between k.Lock() and k.Unlock() are told apart   *)
(*   watch      the loop of run: its position, the failures counted, the   *)
(*              two watch channels and the events applied                  *)
(*   subst      an argument pair of ExpandVars and its result              *)
(*   closures   the route that the director of every handler in use        *)
(*              refers to: the endpoint given to newProxyHandler           *)
(*   cluster    the services that exist in the cluster, and whether their  *)
(*              list was sent again on a watch opened by run               *)
(***************************************************************************)
VARIABLES k, pc, ev, pre, resp, registrants, lock, tasks, watch, subst,
          closures, cluster

vars == <<k, pc, ev, pre, resp, registrants, lock, tasks, watch, subst,
          closures, cluster>>

\* the variables that the steps of whole events and whole requests leave
\* alone
runtime == <<lock, tasks, watch, subst, closures, cluster>>

EmptyMap == [x \in {} |-> << >>]

NoEvent == [Type |-> "NONE"]

NoResponse == [kind |-> "none"]

Added == "ADDED"
Modified == "MODIFIED"
Deleted == "DELETED"

\* sync.Mutex: the zero value is unlocked
Unlocked == "unlocked"

\* the tasks whose steps are told apart: the watch task (run) and two
\* request tasks (ServeHTTP)
RequestTasks == {"request1", "request2"}
Tasks == {"watch"} \cup RequestTasks

\* a task that is not inside a call
IdleTask == [pc |-> "idle"]

\* the two result channels that runOnce selects from
Channels == {"services", "endpoints"}

\* run after the first createWatchers succeeded: both channels open and
\* empty, nothing sent and nothing applied
Watching ==
    [state |-> "watching", failures |-> 0,
     queue |-> [c \in Channels |-> << >>],
     open |-> [c \in Channels |-> TRUE],
     sent |-> [c \in Channels |-> 0],
     applied |-> [c \in Channels |-> 0]]

\* ExpandVars was not called
NoSubst == [called |-> FALSE]

\* no handler was built
NoClosures == [h \in {} |-> NilEndpoint]

\* a cluster without services, before run opened a watch again
NoCluster == [services |-> EmptyMap, relisted |-> FALSE]

(***************************************************************************)
(* The services, events and requests of the model.  A Deleted event is     *)
(* given the bare object: its handlers read the namespace and the name     *)
(* only.                                                                   *)
(***************************************************************************)
ServiceNames == {"foo", "bar"}

PathA == <<"/", "a", "/">>
PathAB == <<"/", "a", "/", "b", "/">>
PathReserved == SvcProxyHTTPPath \o <<"x">>
Port8080 == <<"8", "0", "8", "0">>

NoAnnotations == [x \in {} |-> << >>]

Service(name, annotations, ports) ==
    [Namespace |-> "default", Name |-> name, Annotations |-> annotations,
     Ports |-> ports]

EventsOf(annotations) ==
    [Type : {Added, Modified},
     Object : {Service(n, a, << >>) : n \in ServiceNames, a \in annotations}]
        \cup [Type : {Deleted},
              Object : {Service(n, NoAnnotations, << >>) : n \in ServiceNames}]

\* the events of Spec: no route, two paths of which one is a prefix of the
\* other, and two routes of the same path
RouteAnnotations ==
    { NoAnnotations,
      SvcProxyAnnotationPath :> PathA,
      SvcProxyAnnotationPath :> PathAB,
      SvcProxyAnnotationPath :> PathA @@ SvcProxyAnnotationPort :> Port8080 }

RouteEvents == EventsOf(RouteAnnotations)

RouteRequests ==
    { PathAB \o <<"x">>,
      PathA \o <<"x">> }

\* the events of SpecDispatch: the two paths, the empty path and a path
\* under the reserved prefix
DispatchAnnotations ==
    { SvcProxyAnnotationPath :> PathA,
      SvcProxyAnnotationPath :> PathAB,
      SvcProxyAnnotationPath :> EmptyString,
      SvcProxyAnnotationPath :> PathReserved }

DispatchEvents == EventsOf(DispatchAnnotations)

DispatchRequests ==
    { PathAB \o <<"x">>,
      PathA \o <<"x">>,
      <<"/", "a">>,
      <<"/", "z">>,
      PathReserved,
      serviceDiscoveryPage,
      endpointDiscoveryPage,
      endpointPath \o <<"d", "/", "f", "/", "0", "/">> }

(***************************************************************************)
(* The watch task, runOnce: one event of the service channel is applied    *)
(* by the service handler and then by the endpoint-port handler.  The      *)
(* critical sections are single steps, and requests may be served between  *)
(* the critical section of the first handler and that of the second; the   *)
(* second is a step only when it writes the proxy, which takes the         *)
(* endpoint-port annotation.  serviceAdd writes pathHandlers once before   *)
(* it takes the lock (line 323), so an Added event for a service that has  *)
(* a route takes one step more, and requests may be served there too.      *)
(***************************************************************************)
Init ==
    /\ k = [pathHandlers |-> EmptyMap, services |-> EmptyMap, endpoints |-> EmptyMap]
    /\ pc = "idle"
    /\ ev = NoEvent
    /\ pre = k
    /\ resp = NoResponse
    /\ registrants = << >>
    /\ lock = Unlocked
    /\ tasks = [t \in Tasks |-> IdleTask]
    /\ watch = Watching
    /\ subst = NoSubst
    /\ closures = NoClosures
    /\ cluster = NoCluster

\* the handlers that the tables refer to
LiveHandlers(kk) ==
    UNION {Elems(kk.pathHandlers[p]) : p \in DOMAIN kk.pathHandlers}
        \cup {kk.services[id].handler : id \in DOMAIN kk.services}

\* the handlers that the request tasks found in pathHandlers and call or
\* are about to call
HeldHandlers ==
    {tasks[t].handler :
        t \in {r \in RequestTasks : /\ "handler" \in DOMAIN tasks[r]
                                    /\ "key" \notin DOMAIN tasks[r]}}

\* the handlers in use: a table or a task refers to them
InUse(kk) == LiveHandlers(kk) \cup HeldHandlers

\* newProxyHandler allocates a handler: a pointer that differs from every
\* pointer in use; of those, the model takes the least
newProxyHandler(kk) ==
    CHOOSE h \in 1..(MaxHandlers + 1) :
        /\ h \notin InUse(kk)
        /\ \A g \in 1..(h - 1) : g \in InUse(kk)

\* the model allocates no more than MaxHandlers handlers that are in use
CanAllocate(kk) == newProxyHandler(kk) <= MaxHandlers

\* the handler of the event reaches newProxyHandler
BuildsHandler(kk, e) ==
    CASE e.Type = Added -> ~serviceAddReturns(kk, e.Object)
      [] e.Type = Modified ->
            LET endpoint == makeSvcEndpoint(e.Object)
            IN  /\ endpoint # NilEndpoint
                /\ ~DeepEqual(ServiceAt(kk, SvcID(e.Object)), endpoint)
      [] OTHER -> FALSE

\* serviceAdd writes the map before it takes the lock
WritesUnlocked(kk, e) ==
    /\ e.Type = Added
    /\ SvcID(e.Object) \in DOMAIN kk.services
    /\ ~serviceAddReturns(kk, e.Object)

\* the first call of runOnce for a service event (lines 488, 491, 494)
routeHandler(kk, e, h) ==
    CASE e.Type = Added -> serviceAdd(kk, e.Object, h)
      [] e.Type = Deleted -> serviceDelete(kk, e.Object)
      [] e.Type = Modified -> serviceChange(kk, e.Object, h)

\* ... and the second (lines 489, 492, 495)
portHandler(kk, e) ==
    CASE e.Type = Added -> addEndpointPort(kk, e.Object)
      [] e.Type = Deleted -> deleteEndpointPort(kk, e.Object)
      [] e.Type = Modified -> updateEndpointPort(kk, e.Object)

\* the switch of runOnce on the type of a service event (lines 486-496)
runOnceService(kk, e, h) == portHandler(routeHandler(kk, e, h), e)

\* where the watch task is after the first call left the proxy kk: the
\* second call is a step of its own when it writes the proxy
AfterRoute(kk, e) == IF portHandler(kk, e) = kk THEN "idle" ELSE "endpointPort"

SeqRemove(s, x) == SelectSeq(s, LAMBDA y : y # x)

\* the order of registration after an event for service id that took the
\* proxy from `before` to `after`
Registered(reg, before, after, id) ==
    IF id \notin DOMAIN after.services THEN SeqRemove(reg, id)
    ELSE IF /\ id \in DOMAIN before.services
            /\ before.services[id].Path = after.services[id].Path
            /\ id \in Elems(reg)
         THEN reg
         ELSE Append(SeqRemove(reg, id), id)

\* an event of the service channel: the first call of runOnce, and the
\* second if it leaves the proxy as it is
ServiceEvent(e) ==
    /\ pc = "idle"
    /\ ~WritesUnlocked(k, e)
    /\ BuildsHandler(k, e) => CanAllocate(k)
    /\ k' = routeHandler(k, e, newProxyHandler(k))
    /\ pc' = AfterRoute(k', e)
    /\ ev' = e
    /\ pre' = k
    /\ resp' = NoResponse
    /\ registrants' = Registered(registrants, k, k', SvcID(e.Object))
    /\ UNCHANGED runtime

\* an Added event for a service that has a route: serviceAdd up to k.Lock()
ServiceAddBegin(e) ==
    /\ pc = "idle"
    /\ WritesUnlocked(k, e)
    /\ CanAllocate(k)
    /\ k' = serviceAddUnlocked(k, e.Object)
    /\ pc' = "serviceAdd"
    /\ ev' = e
    /\ pre' = k
    /\ resp' = NoResponse
    /\ UNCHANGED registrants
    /\ UNCHANGED runtime

\* ... and from k.Lock() on
ServiceAddEnd ==
    /\ pc = "serviceAdd"
    /\ k' = serviceAddLocked(k, ev.Object, newProxyHandler(pre))
    /\ pc' = AfterRoute(k', ev)
    /\ resp' = NoResponse
    /\ registrants' = Registered(registrants, pre, k', SvcID(ev.Object))
    /\ UNCHANGED <<ev, pre>>
    /\ UNCHANGED runtime

\* the second call of runOnce for a service event: the critical section
\* of setEndpointPort or deleteEndpointPort
EndpointPortEvent ==
    /\ pc = "endpointPort"
    /\ k' = portHandler(k, ev)
    /\ pc' = "idle"
    /\ resp' = NoResponse
    /\ UNCHANGED <<ev, pre, registrants>>
    /\ UNCHANGED runtime

\* a request task serves a request.  Between two events the request
\* becomes the last step, and ev and pre are reset
ServeHTTP(path, scheme, keys) ==
    /\ k' = Serve(k, path, scheme, keys).k
    /\ resp' = Serve(k, path, scheme, keys).resp
    /\ ev' = IF pc = "idle" THEN NoEvent ELSE ev
    /\ pre' = IF pc = "idle" THEN k ELSE pre
    /\ UNCHANGED <<pc, registrants>>
    /\ UNCHANGED runtime

Next ==
    \/ \E e \in RouteEvents : ServiceEvent(e)
    \/ \E e \in RouteEvents : ServiceAddBegin(e)
    \/ ServiceAddEnd
    \/ \E path \in RouteRequests, keys \in KeyOrders(k.pathHandlers) :
          ServeHTTP(path, NoScheme, keys)

Spec == Init /\ [][Next]_vars

NextDispatch ==
    \/ \E e \in DispatchEvents : ServiceEvent(e)
    \/ \E e \in DispatchEvents : ServiceAddBegin(e)
    \/ ServiceAddEnd
    \/ \E path \in DispatchRequests, keys \in KeyOrders(k.pathHandlers) :
          ServeHTTP(path, NoScheme, keys)

SpecDispatch == Init /\ [][NextDispatch]_vars


(***************************************************************************)
(* The events of SpecPort: one service with a path, with and without a     *)
(* port annotation, and with no, one or two declared ports.                *)
(***************************************************************************)
Digits(n) ==
    CASE n = 80 -> <<"8", "0">>
      [] n = 8080 -> <<"8", "0", "8", "0">>
      [] n = 9090 -> <<"9", "0", "9", "0">>

\* port annotations: numerals in and out of the range of int32, one out of
\* the range of int64, signed numerals, and strings that strconv.Atoi rejects
PortStrings ==
    { Digits(8080),
      <<"0", "0", "8", "0">>,
      <<"+", "8", "0">>,
      <<"-", "5">>,
      <<"4", "2", "9", "4", "9", "6", "7", "3", "7", "6">>,
      MinInt64Magnitude,
      <<"a", "b", "c">>,
      <<"8", "0", "8", "0", " ">>,
      EmptyString }

PortAnnotations ==
    {SvcProxyAnnotationPath :> PathA}
        \cup {SvcProxyAnnotationPath :> PathA @@ SvcProxyAnnotationPort :> s :
                 s \in PortStrings}

DeclaredPorts == { << >>, <<80>>, <<8080>>, <<8080, 9090>> }

PortEvents ==
    [Type : {Added, Modified},
     Object : {Service("foo", a, ports) : a \in PortAnnotations, ports \in DeclaredPorts}]
        \cup [Type : {Deleted}, Object : {Service("foo", NoAnnotations, << >>)}]

NextPort ==
    \/ \E e \in PortEvents : ServiceEvent(e)
    \/ \E e \in PortEvents : ServiceAddBegin(e)
    \/ ServiceAddEnd

SpecPort == Init /\ [][NextPort]_vars

(***************************************************************************)
(* The events and requests of SpecEndpoint: service events with and        *)
(* without endpoint-port annotation, Endpoints objects of up to three      *)
(* addresses, and requests for pods.                                       *)
(***************************************************************************)
EndpointPortStrings ==
    { Digits(8080), Digits(9090), <<"0">>, <<"6", "5", "5", "3", "6">>,
      <<"a", "b", "c">>, <<"+", "8", "0", "8", "0">> }

EndpointPortAnnotations ==
    {NoAnnotations} \cup {SvcProxyAnnotationEndpoint :> s : s \in EndpointPortStrings}

EndpointPortEvents ==
    [Type : {Added, Modified},
     Object : {Service("foo", a, << >>) : a \in EndpointPortAnnotations}]
        \cup [Type : {Deleted}, Object : {Service("foo", NoAnnotations, << >>)}]

Pod(name) == [Kind |-> "Pod", Name |-> name]

AddressXyz == [IP |-> "127.0.0.1", TargetRef |-> Pod(<<"f", "o", "o", "-", "x", "y", "z">>)]
AddressAaa == [IP |-> "8.8.8.8", TargetRef |-> Pod(<<"f", "o", "o", "-", "a", "a", "a">>)]
AddressFoo == [IP |-> "10.0.0.3", TargetRef |-> Pod(<<"f", "o", "o">>)]
AddressNode == [IP |-> "10.0.0.4", TargetRef |-> [Kind |-> "Node", Name |-> <<"n", "1">>]]
AddressNoRef == [IP |-> "10.0.0.5", TargetRef |-> NilRef]

Subset(addresses, notReady) ==
    [Addresses |-> addresses, NotReadyAddresses |-> notReady]

Endpoints(name, subsets) ==
    [Namespace |-> "default", Name |-> name, Subsets |-> subsets]

EndpointsObjects ==
    { Endpoints("foo", << >>),
      Endpoints("foo", <<Subset(<<AddressXyz>>, << >>)>>),
      Endpoints("foo", <<Subset(<<AddressXyz>>, << >>), Subset(<< >>, <<AddressAaa>>)>>),
      Endpoints("foo", <<Subset(<<AddressXyz, AddressFoo>>, <<AddressNoRef>>)>>),
      Endpoints("foo", <<Subset(<<AddressXyz>>, <<AddressNode>>), Subset(<<AddressAaa>>, << >>)>>) }

EndpointsEvents == [Type : {Added, Modified, Deleted}, Object : EndpointsObjects]

EndpointRequests ==
    { <<"/", "e", "n", "d", "p", "o", "i", "n", "t", "/", "d", "e", "f", "a", "u", "l", "t", "/", "f", "o", "o", "/", "0", "/", "d", "e", "b", "u", "g", "/", "v", "a", "r", "z">>,
      <<"/", "e", "n", "d", "p", "o", "i", "n", "t", "/", "d", "e", "f", "a", "u", "l", "t", "/", "f", "o", "o", "/", "0", "/">>,
      <<"/", "e", "n", "d", "p", "o", "i", "n", "t", "/", "d", "e", "f", "a", "u", "l", "t", "/", "f", "o", "o", "/", "1", "/">>,
      <<"/", "e", "n", "d", "p", "o", "i", "n", "t", "/", "d", "e", "f", "a", "u", "l", "t", "/", "f", "o", "o", "/", "2", "/", "x">>,
      <<"/", "e", "n", "d", "p", "o", "i", "n", "t", "/", "d", "e", "f", "a", "u", "l", "t", "/", "f", "o", "o", "/", "3", "/">>,
      <<"/", "e", "n", "d", "p", "o", "i", "n", "t", "/", "d", "e", "f", "a", "u", "l", "t", "/", "f", "o", "o", "/", "0", "1", "/", "x", "/">>,
      <<"/", "e", "n", "d", "p", "o", "i", "n", "t", "/", "d", "e", "f", "a", "u", "l", "t", "/", "b", "a", "r", "/", "0", "/", "d", "e", "b", "u", "g", "/", "v", "a", "r", "z">>,
      <<"/", "e", "n", "d", "p", "o", "i", "n", "t", "/", "d", "e", "f", "a", "u", "l", "t", "/", "f", "o", "o", "/", "1">>,
      <<"/", "e", "n", "d", "p", "o", "i", "n", "t", "/", "d", "e", "f", "a", "u", "l", "t", "/", "f", "o", "o">>,
      <<"/", "e", "n", "d", "p", "o", "i", "n", "t", "/", "d", "e", "f", "a", "u", "l", "t", "/", "f", "o", "o", "/", "x", "/">>,
      <<"/", "e", "n", "d", "p", "o", "i", "n", "t", "/", "d", "e", "f", "a", "u", "l", "t", "/", "f", "o", "o", "/", "-", "1", "/">>,
      <<"/", "e", "n", "d", "p", "o", "i", "n", "t", "/", "d", "e", "f", "a", "u", "l", "t", "/", "f", "o", "o", "/", "/">>,
      <<"/", "e", "n", "d", "p", "o", "i", "n", "t", "/", "d", "e", "f", "a", "u", "l", "t", "/", "f", "o", "o", "/", "4", "2", "9", "4", "9", "6", "7", "2", "9", "6", "/">> }

\* the requests of SpecEndpoint: in origin form, and one for pod 1 in
\* absolute form
EndpointURLs ==
    [Path : EndpointRequests, Scheme : {NoScheme}]
        \cup { [Path |-> endpointPath \o <<"d", "e", "f", "a", "u", "l", "t", "/",
                                           "f", "o", "o", "/", "1", "/">>,
                Scheme |-> "https"] }

\* the switch of runOnce on the type of an endpoint event (lines 501-508)
runOnceEndpoint(kk, e) ==
    CASE e.Type = Added -> endpointUpdate(kk, e.Object)
      [] e.Type = Deleted -> endpointDelete(kk, e.Object)
      [] e.Type = Modified -> endpointUpdate(kk, e.Object)

\* an event of the endpoint channel
EndpointsEvent(e) ==
    /\ pc = "idle"
    /\ k' = runOnceEndpoint(k, e)
    /\ ev' = e
    /\ pre' = k
    /\ resp' = NoResponse
    /\ UNCHANGED <<pc, registrants>>
    /\ UNCHANGED runtime

\* a request task serves a request for a pod: ServeHTTP calls serveEndpoint
\* (lines 185-187), which may store the handler of the pod
ServeEndpoint(path, scheme) ==
    /\ HasPrefix(path, endpointPath)
    /\ \E keys \in KeyOrders(k.pathHandlers) : ServeHTTP(path, scheme, keys)

NextEndpoint ==
    \/ \E e \in EndpointPortEvents : ServiceEvent(e)
    \/ EndpointPortEvent
    \/ \E e \in EndpointsEvents : EndpointsEvent(e)
    \/ \E r \in EndpointURLs : ServeEndpoint(r.Path, r.Scheme)

SpecEndpoint == Init /\ [][NextEndpoint]_vars

(***************************************************************************)
(* The events and requests of SpecMap: routes with and without a map       *)
(* annotation, and requests at and under their paths.  ServeRoute is       *)
(* ServeHTTP followed by the director of the handler chosen.  The handler  *)
(* is a closure over the route it was built for, which closures keeps; the *)
(* response has the path that goes to the backend.                         *)
(***************************************************************************)
\* a variant of requestMapper that keeps the path of the route
requestMapperKeepsPrefix(endpoint, path) == endpoint.Map \o path

\* requestMapper: req.URL.Path after the call; the panic of the slice
\* expression ends the call
requestMapper(endpoint, path) ==
    LET rest == SliceFrom(path, Len(endpoint.Path))
    IN  IF rest = slicePanic THEN slicePanic ELSE endpoint.Map \o rest

\* singleJoiningSlash of net/http/httputil: a and b with one "/" between
\* them
singleJoiningSlash(a, b) ==
    LET aslash == a # << >> /\ a[Len(a)] = "/"
        bslash == HasPrefix(b, <<"/">>)
    IN  CASE aslash /\ bslash -> a \o Tail(b)
          [] ~aslash /\ ~bslash -> a \o <<"/">> \o b
          [] OTHER -> a \o b

\* the path of the URL that makeServiceURL parses from
\* "http://<name>.<namespace>.svc[:port]" (lines 285-290): it is empty
targetPath == EmptyString

\* the path of the backend request of the handler that newProxyHandler
\* builds for endpoint (lines 100-107): with a map the director is
\* requestMapper; without, the director of NewSingleHostReverseProxy joins
\* the path of the request to the path of the target URL, which puts a "/"
\* before a path that does not start with one
proxyPath(endpoint, path) ==
    IF endpoint.Map # EmptyString THEN requestMapper(endpoint, path)
    ELSE singleJoiningSlash(targetPath, path)

PathFoo == <<"/", "f", "o", "o", "/">>
MapBar == <<"/", "b", "a", "r", "/">>

\* the request target of "OPTIONS *" and "GET *", which is the path of the
\* request as it is
PathStar == <<"*">>

MapAnnotations ==
    { SvcProxyAnnotationPath :> PathFoo @@ SvcProxyAnnotationMap :> MapBar,
      SvcProxyAnnotationPath :> PathFoo,
      SvcProxyAnnotationPath :> <<"/", "f", "o", "o">> @@ SvcProxyAnnotationMap :> MapBar,
      SvcProxyAnnotationPath :> PathStar }

MapEvents == EventsOf(MapAnnotations)

MapRequests ==
    { <<"/", "f", "o", "o">>, PathFoo, <<"/", "f", "o", "o", "/", "x">>, PathStar }

\* the services whose route has the handler h
Owners(kk, h) == {id \in DOMAIN kk.services : kk.services[id].handler = h}


(***************************************************************************)
(* The directors of the handlers, SpecClosure.  newProxyHandler builds a   *)
(* handler whose director refers to the endpoint it was given (lines       *)
(* 101-103); closures[h] is that endpoint, for every handler h that the    *)
(* tables refer to.  No field of an endpoint is written after              *)
(* endpoint.handler (lines 331, 365), and a handler that no table refers   *)
(* to is garbage.  The steps are those of Spec with closures kept, and a   *)
(* request that goes to a handler runs its director.  SpecMap and          *)
(* SpecClosure have the same events and requests.                          *)
(***************************************************************************)
\* closures after the handler of event e took the proxy from `before` to
\* `after`: h is the handler that newProxyHandler returned, if it was called
Captured(c, before, after, e, h) ==
    LET built == IF BuildsHandler(before, e)
                 THEN MapSet(c, h, WithHandler(makeSvcEndpoint(e.Object), h))
                 ELSE c
    IN  [x \in DOMAIN built \cap LiveHandlers(after) |-> built[x]]

\* what the steps of SpecClosure leave alone
unclosed == <<lock, tasks, watch, subst, cluster>>

\* an event of the service channel: the first call of runOnce, and the
\* second if it leaves the proxy as it is
ClosureEvent(e) ==
    /\ pc = "idle"
    /\ ~WritesUnlocked(k, e)
    /\ BuildsHandler(k, e) => CanAllocate(k)
    /\ k' = routeHandler(k, e, newProxyHandler(k))
    /\ closures' = Captured(closures, k, k', e, newProxyHandler(k))
    /\ pc' = AfterRoute(k', e)
    /\ ev' = e
    /\ pre' = k
    /\ resp' = NoResponse
    /\ registrants' = Registered(registrants, k, k', SvcID(e.Object))
    /\ UNCHANGED unclosed

\* an Added event for a service that has a route: serviceAdd up to k.Lock()
ClosureAddBegin(e) ==
    /\ pc = "idle"
    /\ WritesUnlocked(k, e)
    /\ CanAllocate(k)
    /\ k' = serviceAddUnlocked(k, e.Object)
    /\ closures' = [x \in DOMAIN closures \cap LiveHandlers(k') |-> closures[x]]
    /\ pc' = "serviceAdd"
    /\ ev' = e
    /\ pre' = k
    /\ resp' = NoResponse
    /\ UNCHANGED registrants
    /\ UNCHANGED unclosed

\* ... and from k.Lock() on
ClosureAddEnd ==
    /\ pc = "serviceAdd"
    /\ k' = serviceAddLocked(k, ev.Object, newProxyHandler(pre))
    /\ closures' = Captured(closures, pre, k', ev, newProxyHandler(pre))
    /\ pc' = AfterRoute(k', ev)
    /\ resp' = NoResponse
    /\ registrants' = Registered(registrants, pre, k', SvcID(ev.Object))
    /\ UNCHANGED <<ev, pre>>
    /\ UNCHANGED unclosed

\* a request task resolves a request and calls the handler, whose director
\* rewrites the path
ServeRoute(path, scheme, keys) ==
    /\ k' = Serve(k, path, scheme, keys).k
    /\ LET d == Serve(k, path, scheme, keys).resp
       IN  resp' = IF d.kind = "handler" /\ d.handler \in DOMAIN closures
                   THEN [Path |-> d.Path, kind |-> d.kind, match |-> d.match,
                         handler |-> d.handler,
                         backend |-> proxyPath(closures[d.handler], path)]
                   ELSE d
    /\ ev' = IF pc = "idle" THEN NoEvent ELSE ev
    /\ pre' = IF pc = "idle" THEN k ELSE pre
    /\ UNCHANGED <<pc, registrants, closures>>
    /\ UNCHANGED unclosed

NextMap ==
    \/ \E e \in MapEvents : ClosureEvent(e)
    \/ \E e \in MapEvents : ClosureAddBegin(e)
    \/ ClosureAddEnd
    \/ \E path \in MapRequests, keys \in KeyOrders(k.pathHandlers) :
          ServeRoute(path, NoScheme, keys)

SpecMap == Init /\ [][NextMap]_vars

\* ... and the response says which endpoint the director refers to
ServeClosure(path, scheme, keys) ==
    /\ k' = Serve(k, path, scheme, keys).k
    /\ LET d == Serve(k, path, scheme, keys).resp
       IN  resp' = IF d.kind = "handler" /\ d.handler \in DOMAIN closures
                   THEN [Path |-> d.Path, kind |-> d.kind, match |-> d.match,
                         handler |-> d.handler,
                         endpoint |-> closures[d.handler],
                         backend |-> proxyPath(closures[d.handler], path)]
                   ELSE d
    /\ ev' = IF pc = "idle" THEN NoEvent ELSE ev
    /\ pre' = IF pc = "idle" THEN k ELSE pre
    /\ UNCHANGED <<pc, registrants, closures>>
    /\ UNCHANGED unclosed

NextClosure ==
    \/ \E e \in MapEvents : ClosureEvent(e)
    \/ \E e \in MapEvents : ClosureAddBegin(e)
    \/ ClosureAddEnd
    \/ \E path \in MapRequests, keys \in KeyOrders(k.pathHandlers) :
          ServeClosure(path, NoScheme, keys)

SpecClosure == Init /\ [][NextClosure]_vars

(***************************************************************************)
(* The events and requests of SpecOrder: routes whose path is a prefix of  *)
(* a status page or of a per-pod path (makeSvcEndpoint refuses only the    *)
(* paths that start with SvcProxyHTTPPath), and requests for the status    *)
(* pages, for a pod, and for paths next to them.                           *)
(***************************************************************************)
PathRoot == <<"/">>

\* "/k8s-svc-proxy"
PathProxy == SubSeq(SvcProxyHTTPPath, 1, Len(SvcProxyHTTPPath) - 1)

OrderAnnotations ==
    { SvcProxyAnnotationPath :> PathRoot,
      SvcProxyAnnotationPath :> PathProxy,
      SvcProxyAnnotationPath :> endpointPath }

OrderEvents == EventsOf(OrderAnnotations)

OrderRequests ==
    { serviceDiscoveryPage,
      endpointDiscoveryPage,
      endpointPath \o <<"d", "/", "f", "/", "0", "/">>,
      SubSeq(endpointPath, 1, Len(endpointPath) - 1),
      serviceDiscoveryPage \o <<"/">> }

NextOrder ==
    \/ \E e \in OrderEvents : ServiceEvent(e)
    \/ \E e \in OrderEvents : ServiceAddBegin(e)
    \/ ServiceAddEnd
    \/ \E path \in OrderRequests, keys \in KeyOrders(k.pathHandlers) :
          ServeHTTP(path, NoScheme, keys)

SpecOrder == Init /\ [][NextOrder]_vars

(***************************************************************************)
(* The steps of the tasks, SpecLock.  A position is a function and the     *)
(* line of the statement that the task executes next.  The watch task has  *)
(* the event e it took from a channel and the handler h that               *)
(* newProxyHandler returns to it; a request task has the path of its       *)
(* request and the handler it found.  k.Lock() is a step that waits for    *)
(* the mutex to be unlocked, and a deferred k.Unlock() is a step at the    *)
(* line where the function returns.                                        *)
(***************************************************************************)
\* sync.Mutex.Unlock that leaves the mutex locked
UnlockKeepsLocked(l) == l

\* sync.Mutex.Unlock
Unlock(l) == Unlocked

\* the statements of ServeHTTP with the handler called before k.Unlock()
ServeHTTPOrderForwardLocked ==
    <<"ServeHTTP:192", "ServeHTTP:193", "ServeHTTP:201", "ServeHTTP:199">>

\* the statements of the functions that take part, in the order of their
\* execution
ServeHTTPOrder ==
    <<"ServeHTTP:192", "ServeHTTP:193", "ServeHTTP:199", "ServeHTTP:201">>
serveEndpointOrder ==
    <<"getEndpointWithHandler:131", "getEndpointWithHandler:134",
      "getEndpointWithHandler:149", "serveEndpoint:166", "serveEndpoint:170">>
serviceStatusOrder == <<"serviceStatus:205">>
endpointStatusOrder == <<"endpointStatus:223">>
serviceAddOrder ==
    <<"serviceAdd:318", "serviceAdd:323", "serviceAdd:326", "serviceAdd:333",
      "serviceAdd:335", "serviceAdd:337">>
serviceDeleteOrder ==
    <<"serviceDelete:342", "serviceDelete:344", "serviceDelete:351">>
serviceChangeOrder ==
    <<"serviceChange:355", "serviceChange:366", "serviceChange:368",
      "serviceChange:379">>
setEndpointPortOrder ==
    <<"setEndpointPort:396", "setEndpointPort:398", "setEndpointPort:404">>
deleteEndpointPortOrder ==
    <<"deleteEndpointPort:426", "deleteEndpointPort:428", "deleteEndpointPort:431">>
setEndpointListOrder ==
    <<"setEndpointList:461", "setEndpointList:463", "setEndpointList:469">>

\* the functions that runOnce calls first for a service event
ServiceOrders == {serviceAddOrder, serviceDeleteOrder, serviceChangeOrder}

Orders ==
    ServiceOrders \cup
        {ServeHTTPOrder, serveEndpointOrder, serviceStatusOrder,
         endpointStatusOrder, setEndpointPortOrder, deleteEndpointPortOrder,
         setEndpointListOrder}

\* runOnce between the service handler and the endpoint-port handler of a
\* service event (lines 488, 491, 494)
EndpointPortCall == "runOnce:endpointPort"

\* the Go runtime stopped the process
Fatal == "fatal"

\* the position after position p when the task does not branch: the next
\* statement, or where the function returns to
Following(p) ==
    LET o == CHOOSE o \in Orders : p \in Elems(o)
        i == CHOOSE i \in 1..Len(o) : o[i] = p
    IN  IF i < Len(o) THEN o[i + 1]
        ELSE IF o \in ServiceOrders THEN EndpointPortCall
        ELSE "idle"

\* k.Lock()
LockPositions ==
    {"ServeHTTP:192", "getEndpointWithHandler:131", "serviceAdd:333",
     "serviceDelete:342", "serviceChange:366", "setEndpointPort:396",
     "deleteEndpointPort:426", "setEndpointList:461"}

\* k.Unlock(), and the returns of the functions with a deferred k.Unlock()
UnlockPositions ==
    {"ServeHTTP:199", "getEndpointWithHandler:149", "serviceAdd:337",
     "serviceDelete:351", "serviceChange:379", "setEndpointPort:404",
     "deleteEndpointPort:431", "setEndpointList:469"}

\* handler.ServeHTTP(rw, req) of a proxy handler: the request is with the
\* backend
ForwardPositions == {"ServeHTTP:201", "serveEndpoint:170"}

\* the statements that read a table, and the table they read
ReadPositions ==
    [services |-> {"serviceStatus:205", "serviceAdd:318", "serviceChange:355",
                 "serviceDelete:344"},
     pathHandlers |-> {"ServeHTTP:193", "serviceAdd:326", "serviceDelete:344",
                     "serviceChange:368", "serviceAdd:335"},
     endpoints |-> {"endpointStatus:223", "getEndpointWithHandler:134",
                  "setEndpointPort:398", "deleteEndpointPort:428",
                  "setEndpointList:463"}]

\* the statements that write a table, and the table they write
WritePositions ==
    [services |-> {"serviceAdd:335", "serviceDelete:344", "serviceChange:368"},
     pathHandlers |-> {"serviceAdd:323", "serviceAdd:335", "serviceDelete:344",
                     "serviceChange:368"},
     endpoints |-> {"setEndpointPort:398", "deleteEndpointPort:428",
                  "setEndpointList:463"}]

Tables == {"services", "pathHandlers", "endpoints"}

TablePositions ==
    UNION {ReadPositions[m] \cup WritePositions[m] : m \in Tables}

\* the events and requests of SpecLock: one service with a route and an
\* endpoint port or without either, its Endpoints object with one pod, and a
\* request for the route, for the pod and for each status page
LockAnnotations ==
    { NoAnnotations,
      SvcProxyAnnotationPath :> PathA @@ SvcProxyAnnotationEndpoint :> Digits(8080),
      SvcProxyAnnotationPath :> PathA @@ SvcProxyAnnotationEndpoint :> Digits(9090) }

LockEvents ==
    [Type : {Added, Modified},
     Object : {Service("foo", a, << >>) : a \in LockAnnotations}]
        \cup [Type : {Deleted}, Object : {Service("foo", NoAnnotations, << >>)}]
        \cup [Type : {Added, Modified, Deleted},
              Object : {Endpoints("foo", <<Subset(<<AddressXyz>>, << >>)>>)}]

PodPath ==
    endpointPath \o <<"d", "e", "f", "a", "u", "l", "t", "/", "f", "o", "o", "/", "0", "/">>

\* a pod path of four segments, and one with an index of 2^32
ShortPodPath == endpointPath \o <<"d", "/", "f">>
RangePodPath ==
    endpointPath \o <<"d", "/", "f", "/">>
        \o <<"4", "2", "9", "4", "9", "6", "7", "2", "9", "6", "/">>

\* the schemes of the requests of SpecLock: those of request1 are in
\* absolute form, those of request2 in origin form
LockScheme == [t \in RequestTasks |-> IF t = "request1" THEN "https" ELSE NoScheme]

LockRequests ==
    { PathA \o <<"x">>, PodPath, ShortPodPath, RangePodPath,
      serviceDiscoveryPage, endpointDiscoveryPage }

IsEndpointsEvent(e) == "Subsets" \in DOMAIN e.Object

\* the task t is at position p
At(t, p) == tasks[t].pc = p

\* the task t goes to position p
Goto(t, p) ==
    tasks' = [tasks EXCEPT ![t] = IF p = "idle" THEN IdleTask
                                  ELSE [@ EXCEPT !.pc = p]]

\* what the steps of the tasks leave alone
untouched == <<pc, ev, pre, resp, registrants, watch, subst, closures, cluster>>

\* runOnce receives an event and calls its handler (lines 486-508);
\* serviceAdd returns at once for an object without a route (lines 310-313)
RunOnce(e) ==
    /\ At("watch", "idle")
    /\ ~IsEndpointsEvent(e) => (BuildsHandler(k, e) => CanAllocate(k))
    /\ tasks' = [tasks EXCEPT !["watch"] =
          [pc |-> IF IsEndpointsEvent(e) THEN "setEndpointList:461"
                  ELSE CASE e.Type = Added ->
                                IF makeSvcEndpoint(e.Object) = NilEndpoint
                                THEN EndpointPortCall ELSE "serviceAdd:318"
                         [] e.Type = Deleted -> "serviceDelete:342"
                         [] e.Type = Modified -> "serviceChange:355",
           e |-> e,
           h |-> newProxyHandler(k)]]
    /\ UNCHANGED <<k, lock>>
    /\ UNCHANGED untouched

\* serviceAdd reads k.services (lines 318-324)
ServiceAddLookup ==
    /\ At("watch", "serviceAdd:318")
    /\ LET svc == tasks["watch"].e.Object
       IN  Goto("watch",
                IF SvcID(svc) \in DOMAIN k.services
                THEN IF DeepEqual(makeSvcEndpoint(svc), k.services[SvcID(svc)])
                     THEN EndpointPortCall
                     ELSE "serviceAdd:323"
                ELSE "serviceAdd:326")
    /\ UNCHANGED <<k, lock>>
    /\ UNCHANGED untouched

\* serviceChange reads k.services and chooses its branch (lines 355-378)
ServiceChangeLookup ==
    /\ At("watch", "serviceChange:355")
    /\ LET svc == tasks["watch"].e.Object
           prev == ServiceAt(k, SvcID(svc))
           endpoint == makeSvcEndpoint(svc)
       IN  Goto("watch",
                IF prev # NilEndpoint /\ endpoint # NilEndpoint
                THEN IF DeepEqual(prev, endpoint) THEN EndpointPortCall
                     ELSE "serviceChange:366"
                ELSE IF endpoint # NilEndpoint THEN "serviceAdd:318"
                ELSE IF prev # NilEndpoint THEN "serviceDelete:342"
                ELSE EndpointPortCall)
    /\ UNCHANGED <<k, lock>>
    /\ UNCHANGED untouched

\* addEndpointPort, deleteEndpointPort or updateEndpointPort is called and
\* setEndpointPort or deleteEndpointPort entered (lines 406-421)
EndpointPort ==
    /\ At("watch", EndpointPortCall)
    /\ LET e == tasks["watch"].e
           port == getEndpointPort(e.Object)
       IN  Goto("watch",
                CASE e.Type = Added ->
                        IF port <= 0 THEN "idle" ELSE "setEndpointPort:396"
                  [] e.Type = Deleted -> "deleteEndpointPort:426"
                  [] e.Type = Modified ->
                        IF port > 0 THEN "setEndpointPort:396"
                        ELSE "deleteEndpointPort:426")
    /\ UNCHANGED <<k, lock>>
    /\ UNCHANGED untouched

\* the statements of the watch task that read and write the tables
WatchTable ==
    /\ tasks["watch"].pc \in
          {"serviceAdd:323", "serviceAdd:326", "serviceAdd:335",
           "serviceDelete:344", "serviceChange:368", "setEndpointPort:398",
           "deleteEndpointPort:428", "setEndpointList:463"}
    /\ LET s == tasks["watch"]
           svc == s.e.Object
       IN  k' = CASE s.pc = "serviceAdd:323" -> serviceAddUnlocked(k, svc)
                  [] s.pc = "serviceAdd:326" -> k
                  [] s.pc = "serviceAdd:335" -> serviceAddLocked(k, svc, s.h)
                  [] s.pc = "serviceDelete:344" -> serviceDelete(k, svc)
                  [] s.pc = "serviceChange:368" -> serviceChangeLocked(k, svc, s.h)
                  [] s.pc = "setEndpointPort:398" ->
                        setEndpointPort(k, svc, getEndpointPort(svc))
                  [] s.pc = "deleteEndpointPort:428" -> deleteEndpointPort(k, svc)
                  [] s.pc = "setEndpointList:463" -> runOnceEndpoint(k, s.e)
    /\ Goto("watch", Following(tasks["watch"].pc))
    /\ UNCHANGED lock
    /\ UNCHANGED untouched

\* the HTTP server calls ServeHTTP in a task of the request (lines 176-188);
\* serveEndpoint reads the key and the index from the path and answers 404
\* at once to a path of fewer than five segments or with an index that
\* ParseUint refuses (lines 153-163)
Request(t, path, scheme) ==
    /\ At(t, "idle")
    /\ tasks' = [tasks EXCEPT ![t] =
          IF path = serviceDiscoveryPage
          THEN [pc |-> "serviceStatus:205", path |-> path]
          ELSE IF path = endpointDiscoveryPage
          THEN [pc |-> "endpointStatus:223", path |-> path]
          ELSE IF HasPrefix(path, endpointPath)
          THEN LET parts == SplitN(Tail(path), 5)
               IN  IF Len(parts) < 5 THEN IdleTask
                   ELSE IF ~ParseUintOk(parts[4]) THEN IdleTask
                   ELSE [pc |-> "getEndpointWithHandler:131", path |-> path,
                         scheme |-> scheme,
                         key |-> EndpointKey(parts),
                         id |-> DecimalUpTo16(parts[4], 0),
                         handler |-> NilProxy]
          ELSE [pc |-> "ServeHTTP:192", path |-> path,
                handler |-> defaultHandler]]
    /\ UNCHANGED <<k, lock>>
    /\ UNCHANGED untouched

\* json.Marshal of k.services or of the EndpointStatus list of k.endpoints
StatusPage(t) ==
    /\ tasks[t].pc \in {"serviceStatus:205", "endpointStatus:223"}
    /\ Goto(t, Following(tasks[t].pc))
    /\ UNCHANGED <<k, lock>>
    /\ UNCHANGED untouched

\* the loop of ServeHTTP over k.pathHandlers (lines 193-198).  A panic of
\* v[0] ends the task before k.Unlock(), which is not deferred
ScanPathHandlers(t) ==
    /\ At(t, "ServeHTTP:193")
    /\ \E keys \in KeyOrders(k.pathHandlers) :
          LET handler == Dispatch(k, tasks[t].path, keys).handler
          IN  tasks' = [tasks EXCEPT
                          ![t] = IF handler = indexPanic THEN IdleTask
                                 ELSE [@ EXCEPT !.pc = Following("ServeHTTP:193"),
                                                !.handler = handler]]
    /\ UNCHANGED <<k, lock>>
    /\ UNCHANGED untouched

\* getEndpointWithHandler between k.Lock() and its return (lines 134-148)
GetEndpointWithHandler(t) ==
    /\ At(t, "getEndpointWithHandler:134")
    /\ LET got == getEndpointWithHandler(k, tasks[t].key, tasks[t].id,
                                         tasks[t].scheme)
       IN  /\ k' = got.k
           /\ tasks' = [tasks EXCEPT
                          ![t].pc = Following("getEndpointWithHandler:134"),
                          ![t].handler = IF got.endpoint = NilEndpoint
                                         THEN NilProxy
                                         ELSE got.endpoint.handler]
    /\ UNCHANGED lock
    /\ UNCHANGED untouched

\* serveEndpoint answers 404 when getEndpointWithHandler returned nil
\* (lines 166-169)
ServeEndpointCheck(t) ==
    /\ At(t, "serveEndpoint:166")
    /\ Goto(t, IF tasks[t].handler = NilProxy THEN "idle"
               ELSE Following("serveEndpoint:166"))
    /\ UNCHANGED <<k, lock>>
    /\ UNCHANGED untouched

\* k.Lock() returns
Acquire(t) ==
    /\ tasks[t].pc \in LockPositions
    /\ lock = Unlocked
    /\ lock' = t
    /\ Goto(t, Following(tasks[t].pc))
    /\ UNCHANGED k
    /\ UNCHANGED untouched

\* k.Unlock()
Release(t) ==
    /\ tasks[t].pc \in UnlockPositions
    /\ lock' = Unlock(lock)
    /\ Goto(t, Following(tasks[t].pc))
    /\ UNCHANGED k
    /\ UNCHANGED untouched

\* the handler of the backend returns
BackendResponds(t) ==
    /\ tasks[t].pc \in ForwardPositions
    /\ Goto(t, Following(tasks[t].pc))
    /\ UNCHANGED <<k, lock>>
    /\ UNCHANGED untouched

\* a request task is about to read a table that the watch task is about to
\* write: the two statements may run at the same time
Overlap(t) ==
    \E m \in Tables :
        /\ tasks[t].pc \in ReadPositions[m]
        /\ tasks["watch"].pc \in WritePositions[m]

\* the Go runtime detects the concurrent use of a map and stops the
\* process ("fatal error: concurrent map read and map write"); it may also
\* miss it, and then the statements take effect one after the other
Throw ==
    /\ \E t \in RequestTasks : Overlap(t)
    /\ tasks' = [t \in Tasks |-> [pc |-> Fatal]]
    /\ UNCHANGED <<k, lock>>
    /\ UNCHANGED untouched

\* the steps of the watch task after it received an event
WatchStep ==
    \/ ServiceAddLookup
    \/ ServiceChangeLookup
    \/ EndpointPort
    \/ WatchTable
    \/ Acquire("watch")
    \/ Release("watch")

\* the steps of a request task up to the call of the handler
RequestStep(t) ==
    \/ StatusPage(t)
    \/ ScanPathHandlers(t)
    \/ GetEndpointWithHandler(t)
    \/ ServeEndpointCheck(t)
    \/ Acquire(t)
    \/ Release(t)

NextLock ==
    \/ \E e \in LockEvents : RunOnce(e)
    \/ WatchStep
    \/ \E t \in RequestTasks, path \in LockRequests :
          Request(t, path, LockScheme[t])
    \/ \E t \in RequestTasks : RequestStep(t)
    \/ \E t \in RequestTasks : BackendResponds(t)
    \/ Throw

SpecLock == Init /\ [][NextLock]_vars

\* the events of SpecLockFair: those of SpecLock with one endpoint port
LockFairEvents ==
    {e \in LockEvents :
        /\ IsEndpointsEvent(e) => e.Type # Modified
        /\ ~IsEndpointsEvent(e) =>
              (SvcProxyAnnotationEndpoint \in DOMAIN e.Object.Annotations
                  => e.Object.Annotations[SvcProxyAnnotationEndpoint] = Digits(8080))}

\* the requests of SpecLockFair are all in absolute form: the positions a
\* task goes through do not depend on the scheme
LockFairScheme == "https"

NextLockFair ==
    \/ \E e \in LockFairEvents : RunOnce(e)
    \/ WatchStep
    \/ \E t \in RequestTasks, path \in LockRequests :
          Request(t, path, LockFairScheme)
    \/ \E t \in RequestTasks : RequestStep(t)
    \/ \E t \in RequestTasks : BackendResponds(t)
    \/ Throw

\* every task that can take a step takes one: the scheduler of Go runs
\* every goroutine that can run, and a sync.Mutex in starvation mode hands
\* the lock to the goroutine that waited longest.  Nothing makes an event
\* or a request arrive or a backend answer.
SpecLockFair ==
    /\ Init
    /\ [][NextLockFair]_vars
    /\ SF_vars(WatchStep)
    /\ \A t \in RequestTasks : SF_vars(RequestStep(t))

(***************************************************************************)
(* The loop of run, SpecRun.  watch.queue[c] holds the events that the     *)
(* watcher of channel c has sent and runOnce has not received, each with   *)
(* the number of its sending; watch.applied[c] is the number of the event  *)
(* of c that runOnce received last.  A watcher sends without end: at most  *)
(* MaxEvents events of a channel wait at a time, and their numbers go      *)
(* round 1..MaxSeq.  A service event is applied in the                     *)
(* steps of Spec: Receive is the step of ServiceEvent or ServiceAddBegin,  *)
(* and ServiceAddEnd and EndpointPortEvent follow; runOnce receives again  *)
(* when pc is "idle".  After runOnce returned false the old channels are   *)
(* not read again, so what is sent on them or closed has no effect and is  *)
(* left out.                                                               *)
(***************************************************************************)
maxWatcherFailures == 3

\* the number of events of one channel that wait to be received
MaxEvents == 2

\* the numbers of the events of a channel: one more than can wait, so that
\* the events that wait and the one received last have different numbers
MaxSeq == MaxEvents + 1
NextSeq(n) == (n % MaxSeq) + 1

\* the events of SpecRun: a service with a route and an endpoint port is
\* added, again and again, and deleted, and its Endpoints object is added
RunServiceEvents ==
    { [Type |-> Added,
       Object |-> Service("foo", SvcProxyAnnotationPath :> PathA
                                    @@ SvcProxyAnnotationEndpoint :> Digits(8080),
                          << >>)],
      [Type |-> Deleted, Object |-> Service("foo", NoAnnotations, << >>)] }

RunEndpointsEvents ==
    { [Type |-> Added, Object |-> Endpoints("foo", <<Subset(<<AddressXyz>>, << >>)>>)] }

RunEvents(c) == IF c = "services" THEN RunServiceEvents ELSE RunEndpointsEvents

\* a variant of the select of runOnce that prefers the service channel:
\* the case of the endpoint channel is taken only when no service event
\* waits
selectReadyServicesFirst(w, c) ==
    /\ w.queue[c] # << >>
    /\ c = "endpoints" => w.queue["services"] = << >>

\* the select of runOnce (lines 481-497): the case of channel c can proceed
\* when an event of c waits, whatever the other channel holds; select
\* chooses at random among the cases that can proceed
selectReady(w, c) == w.queue[c] # << >>

\* ev, ok := <-ch with ok true: the event sent first is taken from the
\* channel
recv(q) == [value |-> Head(q), rest |-> Tail(q)]

\* a variant of the loop of run that makes one attempt more
createWatchersFailedOnceMore(w) ==
    [w EXCEPT !.failures = @ + 1,
              !.state = IF w.failures + 1 <= maxWatcherFailures
                        THEN "recovering" ELSE "fatal"]

\* createWatchers returned an error (lines 538-544): the failure is counted
\* after the sleep, and log.Fatal ends the process when the loop is left
createWatchersFailed(w) ==
    [w EXCEPT !.failures = @ + 1,
              !.state = IF w.failures + 1 < maxWatcherFailures
                        THEN "recovering" ELSE "fatal"]

\* what the steps of run leave alone
unwatched == <<pc, ev, pre, resp, registrants, lock, tasks, subst, closures,
               cluster>>

\* ... and what the steps of runOnce leave alone
unreceived == <<resp, lock, tasks, subst, closures, cluster>>

\* the watcher of channel c sends an event
Send(c, e) ==
    /\ watch.state = "watching"
    /\ watch.open[c]
    /\ Len(watch.queue[c]) < MaxEvents
    /\ watch' = [watch EXCEPT
                   !.queue[c] = Append(@, [seq |-> NextSeq(watch.sent[c]), event |-> e]),
                   !.sent[c] = NextSeq(@)]
    /\ UNCHANGED k
    /\ UNCHANGED unwatched

\* the watcher of channel c closes its channel
Close(c) ==
    /\ watch.state = "watching"
    /\ watch.open[c]
    /\ watch' = [watch EXCEPT !.open[c] = FALSE]
    /\ UNCHANGED k
    /\ UNCHANGED unwatched

\* runOnce receives an event from channel c and calls its handler: for a
\* service event up to the end of the first critical section, or up to
\* k.Lock() of serviceAdd if serviceAdd writes before it
Receive(c) ==
    /\ watch.state = "watching"
    /\ selectReady(watch, c)
    /\ pc = "idle"
    /\ LET got == recv(watch.queue[c])
           e == got.value.event
       IN  /\ c = "services" =>
                  /\ (WritesUnlocked(k, e) \/ BuildsHandler(k, e)) => CanAllocate(k)
                  /\ k' = IF WritesUnlocked(k, e)
                          THEN serviceAddUnlocked(k, e.Object)
                          ELSE routeHandler(k, e, newProxyHandler(k))
                  /\ pc' = IF WritesUnlocked(k, e) THEN "serviceAdd"
                           ELSE AfterRoute(k', e)
                  /\ registrants' = IF WritesUnlocked(k, e) THEN registrants
                                    ELSE Registered(registrants, k, k',
                                                    SvcID(e.Object))
           /\ c = "endpoints" =>
                  /\ k' = runOnceEndpoint(k, e)
                  /\ pc' = "idle"
                  /\ registrants' = registrants
           /\ ev' = e
           /\ pre' = k
           /\ watch' = [watch EXCEPT !.queue[c] = got.rest,
                                     !.applied[c] = got.value.seq]
    /\ UNCHANGED unreceived

\* runOnce receives from the closed channel c (ok is false) and returns
\* false; run enters its loop of attempts with failures := 0
ReceiveClosed(c) ==
    /\ watch.state = "watching"
    /\ pc = "idle"
    /\ ~watch.open[c]
    /\ watch.queue[c] = << >>
    /\ watch' = [watch EXCEPT !.state = "recovering", !.failures = 0]
    /\ UNCHANGED k
    /\ UNCHANGED unwatched

\* an attempt of run to create both watchers (lines 537-544); the numbers
\* of the events of the new channels go on from the event received last
CreateWatchers(ok) ==
    /\ watch.state = "recovering"
    /\ watch' = IF ok
                THEN [watch EXCEPT !.state = "watching",
                                   !.queue = [c \in Channels |-> << >>],
                                   !.sent = watch.applied,
                                   !.open = [c \in Channels |-> TRUE]]
                ELSE createWatchersFailed(watch)
    /\ UNCHANGED k
    /\ UNCHANGED unwatched

NextRun ==
    \/ \E c \in Channels : \E e \in RunEvents(c) : Send(c, e)
    \/ \E c \in Channels : Close(c)
    \/ \E c \in Channels : Receive(c)
    \/ ServiceAddEnd
    \/ EndpointPortEvent
    \/ \E c \in Channels : ReceiveClosed(c)
    \/ \E ok \in BOOLEAN : CreateWatchers(ok)

SpecRun == Init /\ [][NextRun]_vars

\* select chooses at random among the channels that are ready, so a channel
\* that is ready again and again is chosen, also when the other channel is
\* ready at every time; the handler of an event and createWatchers return.
\* Nothing makes a watcher send or close.
SpecRunFair ==
    /\ SpecRun
    /\ \A c \in Channels : SF_vars(Receive(c)) /\ SF_vars(ReceiveClosed(c))
    /\ WF_vars(ServiceAddEnd) /\ WF_vars(EndpointPortEvent)
    /\ WF_vars(\E ok \in BOOLEAN : CreateWatchers(ok))

(***************************************************************************)
(* The watches and the cluster, SpecResync.  cluster.services are the      *)
(* services that exist, by name.  While run reads an open service channel  *)
(* the watcher sends an event for every change of a service; a change made *)
(* at another time is sent to nobody.  A watch that createWatchers opens   *)
(* (empty ListOptions) starts with an Added event for every service that   *)
(* exists then.  run keeps the proxy k as it is when it opens the watches  *)
(* again (lines 536-543).                                                  *)
(***************************************************************************)
ResyncAnnotations ==
    { SvcProxyAnnotationPath :> PathA,
      SvcProxyAnnotationPath :> PathAB }

ResyncObjects ==
    {Service(n, a, << >>) : n \in ServiceNames, a \in ResyncAnnotations}

\* runOnce reads a service channel that its watcher sends on
Up == watch.state = "watching" /\ watch.open["services"]

\* the watcher of the service channel sends event e
Sent(w, e) ==
    [w EXCEPT !.queue["services"] =
                  Append(@, [seq |-> w.sent["services"] + 1, event |-> e]),
              !.sent["services"] = @ + 1]

\* the Added events for the services of names, in that order
RECURSIVE Listed(_, _)
Listed(w, names) ==
    IF names = << >> THEN w
    ELSE Listed(Sent(w, [Type |-> Added,
                         Object |-> cluster.services[Head(names)]]),
                Tail(names))

\* what the steps of SpecResync leave alone
unlisted == <<pc, ev, pre, resp, registrants, lock, tasks, subst, closures>>

\* a change of the cluster: with type Added the service obj is created,
\* with Modified it is replaced, with Deleted it is removed
ClusterChange(type, obj) ==
    /\ CASE type = Added -> obj.Name \notin DOMAIN cluster.services
         [] type = Modified -> /\ obj.Name \in DOMAIN cluster.services
                               /\ cluster.services[obj.Name] # obj
         [] type = Deleted -> /\ obj.Name \in DOMAIN cluster.services
                              /\ cluster.services[obj.Name] = obj
    /\ cluster' = [cluster EXCEPT
                     !.services = IF type = Deleted
                                  THEN MapDelete(@, obj.Name)
                                  ELSE MapSet(@, obj.Name, obj)]
    /\ Up => watch.sent["services"] < MaxEvents
    /\ watch' = IF Up THEN Sent(watch, [Type |-> type, Object |-> obj])
                ELSE watch
    /\ UNCHANGED k
    /\ UNCHANGED unlisted

\* an attempt of run to create both watchers succeeds (lines 540-543); the
\* new service channel starts with the list of the services, in the order
\* names
CreateWatchersListed(names) ==
    /\ watch.state = "recovering"
    /\ watch.sent["services"] + Len(names) <= MaxEvents
    /\ watch' = Listed([watch EXCEPT !.state = "watching",
                                     !.queue = [c \in Channels |-> << >>],
                                     !.open = [c \in Channels |-> TRUE]],
                       names)
    /\ cluster' = [cluster EXCEPT !.relisted = TRUE]
    /\ UNCHANGED k
    /\ UNCHANGED unlisted

NextResync ==
    \/ \E type \in {Added, Modified, Deleted}, obj \in ResyncObjects :
          ClusterChange(type, obj)
    \/ \E c \in Channels : Close(c)
    \/ \E c \in Channels : Receive(c)
    \/ ServiceAddEnd
    \/ \E c \in Channels : ReceiveClosed(c)
    \/ CreateWatchers(FALSE)
    \/ \E names \in KeyOrders(cluster.services) : CreateWatchersListed(names)

SpecResync == Init /\ [][NextResync]_vars

(***************************************************************************)
(* ExpandVars (varsubst.go), SpecExpand.  A string is the sequence of its  *)
(* bytes; the strings of the model are ASCII.  An index pair of the        *)
(* regexp package counts from 0 and excludes its end.                      *)
(***************************************************************************)
\* [A-Za-z]
Letters ==
    { "A", "B", "C", "D", "E", "F", "G", "H", "I", "J", "K", "L", "M",
      "N", "O", "P", "Q", "R", "S", "T", "U", "V", "W", "X", "Y", "Z" }
        \cup
    { "a", "b", "c", "d", "e", "f", "g", "h", "i", "j", "k", "l", "m",
      "n", "o", "p", "q", "r", "s", "t", "u", "v", "w", "x", "y", "z" }

\* [A-Za-z0-9_]
IsWord(c) == c \in Letters \/ IsDigit(c) \/ c = "_"

\* value[a:b]
Slice(value, a, b) == SubSeq(value, a + 1, b)

\* the last position of the longest run of [A-Za-z0-9_] that starts at
\* position i of value
RECURSIVE RunEnd(_, _)
RunEnd(value, i) ==
    IF i < Len(value) /\ IsWord(value[i + 1]) THEN RunEnd(value, i + 1) ELSE i

\* the match of reVar that starts at position i of value (positions from
\* 1), as the four indices of the regexp package, << >> if there is none
MatchAt(value, i) ==
    IF /\ i + 3 <= Len(value)
       /\ value[i] = "$"
       /\ value[i + 1] = "{"
       /\ value[i + 2] \in Letters
    THEN LET j == RunEnd(value, i + 2)
         IN  IF j < Len(value) /\ value[j + 1] = "}"
             THEN <<i - 1, j + 1, i + 1, j>>
             ELSE << >>
    ELSE << >>

\* reVar.FindAllStringSubmatchIndex(value, -1) from position i on: the
\* leftmost matches that do not overlap
RECURSIVE FindAllFrom(_, _)
FindAllFrom(value, i) ==
    IF i > Len(value) THEN << >>
    ELSE IF MatchAt(value, i) # << >>
         THEN <<MatchAt(value, i)>> \o FindAllFrom(value, MatchAt(value, i)[2] + 1)
         ELSE FindAllFrom(value, i + 1)

FindAllStringSubmatchIndex(value) == FindAllFrom(value, 1)

\* the loop of ExpandVars with the empty string for a name that vars does
\* not have
RECURSIVE ExpandLoopDropsUnknown(_, _, _, _)
ExpandLoopDropsUnknown(vmap, value, matches, offset) ==
    IF matches = << >> THEN value
    ELSE LET match == Head(matches)
             begin == match[1] + offset
             end == match[2] + offset
             varName == Slice(value, match[3] + offset, match[4] + offset)
             repl == IF varName \in DOMAIN vmap THEN vmap[varName] ELSE << >>
             delta == Len(repl) - (end - begin)
         IN  ExpandLoopDropsUnknown(vmap,
                        Slice(value, 0, begin) \o repl \o Slice(value, end, Len(value)),
                        Tail(matches), offset + delta)

ExpandVarsDropsUnknown(vmap, value) ==
    ExpandLoopDropsUnknown(vmap, value, FindAllStringSubmatchIndex(value), 0)

\* the loop of ExpandVars (lines 18-32) over the matches that are left
RECURSIVE ExpandLoop(_, _, _, _)
ExpandLoop(vmap, value, matches, offset) ==
    IF matches = << >> THEN value
    ELSE LET match == Head(matches)
             begin == match[1] + offset
             end == match[2] + offset
             varName == Slice(value, match[3] + offset, match[4] + offset)
         IN  IF varName \in DOMAIN vmap
             THEN LET repl == vmap[varName]
                      delta == Len(repl) - (end - begin)
                  IN  ExpandLoop(vmap,
                          Slice(value, 0, begin) \o repl \o Slice(value, end, Len(value)),
                          Tail(matches), offset + delta)
             ELSE ExpandLoop(vmap, value, Tail(matches), offset)

ExpandVars(vmap, value) ==
    ExpandLoop(vmap, value, FindAllStringSubmatchIndex(value), 0)

\* the pieces that the values of SpecExpand are made of, and the number of
\* pieces of a value
Pieces ==
    { <<"$", "{", "X", "}">>, <<"$", "{", "Y", "}">>, <<"$", "{", "N", "A", "M", "E", "}">>, <<"$", "{", "X", "_", "1", "}">>, <<"$", "{", "1", "X", "}">>,
      <<"$", "{">>, <<"$">>, <<"}">>, <<"a", "/">>, <<"{", "X", "}">> }

MaxPieces == 3

RECURSIVE Joined(_)
Joined(n) ==
    IF n = 0 THEN {<< >>}
    ELSE Joined(n - 1) \cup {s \o p : s \in Joined(n - 1), p \in Pieces}

ExpandValues == Joined(MaxPieces)

NameX == <<"X">>
NameY == <<"Y">>

ExpandMaps ==
    { NameX :> <<"f", "o", "o">> @@ NameY :> <<"b", "a", "r">>,
      NameX :> <<"$", "{", "Y", "}">> @@ NameY :> <<"b", "a", "r", "b", "a", "r">>,
      NameX :> << >> @@ <<"X", "_", "1">> :> <<"$", "{", "X", "}">>,
      [x \in {} |-> << >>] }

\* ExpandVars is called; the model looks at one call
Expand(vmap, value) ==
    /\ ~subst.called
    /\ subst' = [called |-> TRUE, vars |-> vmap, value |-> value,
                 result |-> ExpandVars(vmap, value)]
    /\ UNCHANGED <<k, pc, ev, pre, resp, registrants, lock, tasks, watch,
                   closures, cluster>>

NextExpand == \E vmap \in ExpandMaps, value \in ExpandValues : Expand(vmap, value)

SpecExpand == Init /\ [][NextExpand]_vars

(***************************************************************************)
(* Properties.  They are stated on the last event ev, the proxy `pre`      *)
(* before it and the proxy k after it.                                     *)
(***************************************************************************)
\* the watch task is between two events
Idle == pc = "idle"

\* the last step completed an event of the given types
After(types) == Idle /\ ev.Type \in types

\* the service of the last event, the route it had and the route computed
\* from the event
EvID == SvcID(ev.Object)
EvRouted == EvID \in DOMAIN pre.services
EvPrev == pre.services[EvID]
EvRoute == makeSvcEndpoint(ev.Object)

\* two routes are equal but for their handlers
SameRoute(a, b) == WithHandler(a, NilHandler) = WithHandler(b, NilHandler)

\* the services that have a route with path p, and the paths that have one
Claimants(kk, p) == {id \in DOMAIN kk.services : kk.services[id].Path = p}
ClaimedPaths(kk) == {kk.services[id].Path : id \in DOMAIN kk.services}

\* services and pathHandlers agree with each other
Consistent(kk) ==
    /\ \A id \in DOMAIN kk.services :
          /\ kk.services[id].Path \in DOMAIN kk.pathHandlers
          /\ Len(kk.pathHandlers[kk.services[id].Path]) > 0
          /\ kk.services[id].handler \in Elems(kk.pathHandlers[kk.services[id].Path])
    /\ \A p \in DOMAIN kk.pathHandlers :
          \A i \in 1..Len(kk.pathHandlers[p]) :
             Cardinality({id \in Claimants(kk, p) :
                             kk.services[id].handler = kk.pathHandlers[p][i]}) = 1

\* C1: after every service event the two tables are consistent: the path of
\* every route has a non-empty handler list that holds the route's handler,
\* and every handler of a list is the handler of exactly one route of that
\* path.  (Violated: see C3.)
C1_TablesConsistent == Idle => Consistent(k)

\* the last event was an Added or Modified event for a service that had a
\* route, and the route computed from it is the stored one
Redelivered ==
    /\ After({Added, Modified})
    /\ EvRouted
    /\ EvRoute # NilEndpoint
    /\ SameRoute(EvRoute, EvPrev)

\* C2: re-delivering an Added or Modified event whose route is the stored
\* route changes nothing: the sizes of the two maps, the length of every
\* handler list and the handlers installed are as before.  (Violated:
\* DeepEqual compares the handler too, which is nil in the computed route and
\* not nil in the stored one, so the route is installed again.)
C2_RedeliveryIsNoOp ==
    Redelivered =>
        /\ Cardinality(DOMAIN k.services) = Cardinality(DOMAIN pre.services)
        /\ DOMAIN k.pathHandlers = DOMAIN pre.pathHandlers
        /\ \A p \in DOMAIN k.pathHandlers :
              /\ Len(k.pathHandlers[p]) = Len(pre.pathHandlers[p])
              /\ Elems(k.pathHandlers[p]) = Elems(pre.pathHandlers[p])
        /\ k.services[EvID].handler = EvPrev.handler

\* an Added event for a service that has a route, with another route
ReAddedWithNewRoute ==
    /\ ev.Type = Added
    /\ EvRouted
    /\ EvRoute # NilEndpoint
    /\ ~SameRoute(EvRoute, EvPrev)

\* C3: when an Added event brings a new route for a service that has one,
\* the old handler is out of the list of the old path before the new handler
\* is installed (pc = "serviceAdd"), and stays out.  (Violated: line 323
\* deletes the list of the new path, not the handler of the old one.)
C3_OldRegistrationRemoved ==
    ReAddedWithNewRoute =>
        EvPrev.handler \notin Elems(ListAt(k.pathHandlers, EvPrev.Path))

ServiceIDs == {<<"default", n>> : n \in ServiceNames}

\* s and t are the only services, their paths differ, and each path has the
\* handler of its service and nothing else
DistinctPaths(kk, s, t) ==
    /\ s # t
    /\ DOMAIN kk.services = {s, t}
    /\ kk.services[s].Path # kk.services[t].Path
    /\ DOMAIN kk.pathHandlers = {kk.services[s].Path, kk.services[t].Path}
    /\ kk.pathHandlers[kk.services[s].Path] = <<kk.services[s].handler>>
    /\ kk.pathHandlers[kk.services[t].Path] = <<kk.services[t].handler>>

\* s and t are the only services, they have the same path, and the list of
\* that path holds their two handlers and nothing else
SharedPath(kk, s, t) ==
    /\ s # t
    /\ DOMAIN kk.services = {s, t}
    /\ kk.services[s].Path = kk.services[t].Path
    /\ DOMAIN kk.pathHandlers = {kk.services[s].Path}
    /\ Len(kk.pathHandlers[kk.services[s].Path]) = 2
    /\ Elems(kk.pathHandlers[kk.services[s].Path])
          = {kk.services[s].handler, kk.services[t].handler}

\* a Modified event that gives a service with a route a route of another path
PathChanged ==
    /\ ev.Type = Modified
    /\ EvRouted
    /\ EvRoute # NilEndpoint
    /\ EvRoute.Path # EvPrev.Path

\* C5: path swap.  From two services on distinct paths A and B, the first
\* Modified event (for either service) brings both services to one path with
\* both handlers in its list; from there the second Modified event (for
\* either service, to the other path) leaves exactly two paths registered,
\* each with exactly one handler.
C5_PathSwap ==
    \A t \in ServiceIDs :
       /\ (/\ PathChanged /\ Idle
           /\ DistinctPaths(pre, EvID, t)
           /\ EvRoute.Path = pre.services[t].Path)
          => SharedPath(k, EvID, t)
       /\ (/\ PathChanged /\ Idle
           /\ SharedPath(pre, EvID, t))
          => /\ DOMAIN k.pathHandlers = {EvPrev.Path, EvRoute.Path}
             /\ \A p \in DOMAIN k.pathHandlers : Len(k.pathHandlers[p]) = 1

\* the second event of a swap has been applied: the service that was alone
\* on the shared path before the swap began has left it
C5_Witness ==
    /\ PathChanged /\ Idle
    /\ \E t \in ServiceIDs :
          /\ SharedPath(pre, EvID, t)
          /\ pre.pathHandlers[EvPrev.Path] = <<EvPrev.handler, pre.services[t].handler>>
          /\ DistinctPaths(k, EvID, t)

\* C6: conflict, then resolution.  When two services share a path and one
\* of them (the first or the second of the list) is modified to another
\* path, exactly the old and the new path are registered, each with one
\* handler: the old path with the handler of the service that stayed, the
\* new path with the handler of the service that moved.
C6_ConflictResolved ==
    \A t \in ServiceIDs :
       (/\ PathChanged /\ Idle
        /\ SharedPath(pre, EvID, t))
       => /\ DOMAIN k.pathHandlers = {EvPrev.Path, EvRoute.Path}
          /\ k.services[t] = pre.services[t]
          /\ k.pathHandlers[EvPrev.Path] = <<k.services[t].handler>>
          /\ k.services[EvID].Path = EvRoute.Path
          /\ k.pathHandlers[EvRoute.Path] = <<k.services[EvID].handler>>
          /\ k.services[EvID].handler # k.services[t].handler

\* the first registrant of a shared path has moved to another path
C6_Witness ==
    /\ PathChanged /\ Idle
    /\ \E t \in ServiceIDs :
          /\ SharedPath(pre, EvID, t)
          /\ pre.pathHandlers[EvPrev.Path][1] = EvPrev.handler
          /\ k.pathHandlers[EvPrev.Path] = <<pre.services[t].handler>>

\* a Deleted event for a service that has a route
DeletedRouted == After({Deleted}) /\ EvRouted

\* C8: a Deleted event for a service that has a route removes the route
\* from services and its handler from the list of its path; the path is
\* dropped if and only if no other handler is left in the list; every other
\* route and every other handler stays.
C8_Delete ==
    DeletedRouted =>
        /\ DOMAIN k.services = DOMAIN pre.services \ {EvID}
        /\ \A id \in DOMAIN k.services : k.services[id] = pre.services[id]
        /\ EvPrev.handler \notin Elems(ListAt(k.pathHandlers, EvPrev.Path))
        /\ Elems(ListAt(k.pathHandlers, EvPrev.Path))
              = Elems(ListAt(pre.pathHandlers, EvPrev.Path)) \ {EvPrev.handler}
        /\ EvPrev.Path \in DOMAIN k.pathHandlers
              <=> Elems(ListAt(pre.pathHandlers, EvPrev.Path)) \ {EvPrev.handler} # {}
        /\ DOMAIN k.pathHandlers \ {EvPrev.Path} = DOMAIN pre.pathHandlers \ {EvPrev.Path}
        /\ \A p \in DOMAIN k.pathHandlers \ {EvPrev.Path} :
              k.pathHandlers[p] = pre.pathHandlers[p]

\* a service was deleted whose handler was the first of two in its list;
\* the path stays with the handler of the other service
C8_Witness ==
    /\ DeletedRouted
    /\ Len(pre.pathHandlers[EvPrev.Path]) = 2
    /\ pre.pathHandlers[EvPrev.Path][1] = EvPrev.handler
    /\ Len(k.pathHandlers[EvPrev.Path]) = 1
    /\ \E id \in DOMAIN k.services :
          k.pathHandlers[EvPrev.Path] = <<k.services[id].handler>>

\* the lists that hold handler h
ListsOf(kk, h) == {p \in DOMAIN kk.pathHandlers : h \in Elems(kk.pathHandlers[p])}

\* C9: a Modified event that changes the path of a route from P to Q is
\* applied by one critical section (no state lies between the state before
\* the event and the state after it): the old handler is then in no list,
\* P is dropped if and only if no other handler is left in its list, the
\* route of the service has path Q and its new handler is in the list of Q
\* and in no other list.  So in every state in which a request can be
\* resolved the service is registered either under P (before) or under Q
\* (after), never under both and never under neither.
C9_PathChangeAtomic ==
    PathChanged =>
        /\ Idle
        /\ ListsOf(k, EvPrev.handler) = {}
        /\ EvPrev.Path \in DOMAIN k.pathHandlers
              <=> Elems(ListAt(pre.pathHandlers, EvPrev.Path)) \ {EvPrev.handler} # {}
        /\ k.services[EvID].Path = EvRoute.Path
        /\ k.services[EvID].handler # EvPrev.handler
        /\ ListsOf(k, k.services[EvID].handler) = {EvRoute.Path}
        /\ Consistent(pre) => Consistent(k)

\* the path of a route was changed, the route was the only one of its old
\* path, and the new path is shared with another service
C9_Witness ==
    /\ PathChanged /\ Idle
    /\ pre.pathHandlers[EvPrev.Path] = <<EvPrev.handler>>
    /\ EvPrev.Path \notin DOMAIN k.pathHandlers
    /\ Len(k.pathHandlers[EvRoute.Path]) = 2

\* the two route tables of a proxy
Routes(kk) == <<kk.services, kk.pathHandlers>>

\* the last event with another type
EventAs(type) == [ev EXCEPT !.Type = type]

\* C10: a Modified event whose object yields no route has the effect of a
\* Deleted event if the service had a route, and no effect if it had none;
\* a Modified event whose object yields a route for a service that had none
\* has the effect of an Added event.
C10_ModifiedAsDeleteOrAdd ==
    After({Modified}) =>
        /\ (EvRouted /\ EvRoute = NilEndpoint)
              => Routes(k) = Routes(runOnceService(pre, EventAs(Deleted),
                                                   newProxyHandler(pre)))
        /\ (~EvRouted /\ EvRoute # NilEndpoint)
              => Routes(k) = Routes(runOnceService(pre, EventAs(Added),
                                                   newProxyHandler(pre)))
        /\ (~EvRouted /\ EvRoute = NilEndpoint)
              => Routes(k) = Routes(pre)

\* a Modified event without a route has removed a route that shared its
\* path with another
C10_Witness ==
    /\ After({Modified})
    /\ EvRouted
    /\ EvRoute = NilEndpoint
    /\ EvID \notin DOMAIN k.services
    /\ Len(pre.pathHandlers[EvPrev.Path]) = 2
    /\ Len(k.pathHandlers[EvPrev.Path]) = 1

(***************************************************************************)
(* The dispatcher.                                                         *)
(***************************************************************************)
\* the registered paths that are a prefix of the path of the request
Prefixes(kk, path) == {key \in DOMAIN kk.pathHandlers : HasPrefix(path, key)}

Longest(paths) == CHOOSE p \in paths : \A q \in paths : Len(q) <= Len(p)

\* the last step resolved a request against the service routes
Routed == resp.kind = "handler"

\* C4 as claimed: a request that is neither a status page nor a per-pod
\* request goes to the first handler of the longest registered path that is
\* a prefix of its path, and to the default handler if there is none.
\* (Violated when the empty path is registered: it is a prefix of every
\* path, and the scan never selects it.)
C4_LongestRegisteredPrefix ==
    Routed =>
        resp.handler =
            IF Prefixes(k, resp.Path) = {} THEN defaultHandler
            ELSE k.pathHandlers[Longest(Prefixes(k, resp.Path))][1]

\* C4 amended: ... the longest registered path that is not empty and is a
\* prefix of its path, and the default handler if there is none
C4_LongestNonEmptyPrefix ==
    Routed =>
        resp.handler =
            IF Prefixes(k, resp.Path) \ {EmptyString} = {} THEN defaultHandler
            ELSE k.pathHandlers[Longest(Prefixes(k, resp.Path) \ {EmptyString})][1]

\* two registered paths are prefixes of the request, the longer one has two
\* handlers, and the request went to the first of them
C4_Witness ==
    /\ Routed
    /\ {PathA, PathAB} \subseteq Prefixes(k, resp.Path)
    /\ Len(k.pathHandlers[PathAB]) = 2
    /\ resp.handler = k.pathHandlers[PathAB][1]
    /\ resp.handler # k.pathHandlers[PathA][1]

\* of the services that have a route with path p, the one that came to the
\* path first
FirstRegistrant(p) ==
    registrants[CHOOSE i \in 1..Len(registrants) :
                   /\ registrants[i] \in Claimants(k, p)
                   /\ \A j \in 1..(i - 1) : registrants[j] \notin Claimants(k, p)]

\* C7: the handlers of all the services that have a route with the same
\* path are in the list of that path, and a request that matches the path
\* goes to the handler of the service that came to the path first.
\* (Violated: an event that re-installs a route moves its handler to the end
\* of the list or deletes the list, see C2 and C3, and handlerListRemove
\* moves the last handler to the place of the one it removes.)
C7_FirstRegistrantServed ==
    Idle =>
       /\ \A p \in ClaimedPaths(k) : \A id \in Claimants(k, p) :
             k.services[id].handler \in Elems(ListAt(k.pathHandlers, p))
       /\ (Routed /\ resp.match \in ClaimedPaths(k))
             => resp.handler = k.services[FirstRegistrant(resp.match)].handler

\* the object of the last event has no path annotation
EvNoPath == ~HasAnnotation(ev.Object, SvcProxyAnnotationPath)

\* C11: an Added event for a service without path annotation leaves
\* services and pathHandlers exactly as they were before the event.
C11_AddedWithoutPath ==
    (After({Added}) /\ EvNoPath) => Routes(k) = Routes(pre)

\* an Added event without path annotation was applied for a service that
\* has a route, and the route is still there
C11_Witness ==
    /\ After({Added})
    /\ EvNoPath
    /\ EvRouted
    /\ EvID \in DOMAIN k.services
    /\ k.pathHandlers[EvPrev.Path] = <<EvPrev.handler>>

\* the path begins with the prefix of the pages of the proxy itself
Reserved(path) == HasPrefix(path, SvcProxyHTTPPath)

\* the object of the last event has a path annotation under the prefix
EvReserved ==
    /\ HasAnnotation(ev.Object, SvcProxyAnnotationPath)
    /\ Reserved(ev.Object.Annotations[SvcProxyAnnotationPath])

\* C12: in every state no route and no key of pathHandlers has a path
\* under /k8s-svc-proxy/; an Added event with such a path changes neither
\* table, and a Modified event with such a path for a service that has a
\* route removes the route and its handler.
C12_NoReservedRoute ==
    /\ \A id \in DOMAIN k.services : ~Reserved(k.services[id].Path)
    /\ \A p \in DOMAIN k.pathHandlers : ~Reserved(p)
    /\ (After({Added}) /\ EvReserved) => Routes(k) = Routes(pre)
    /\ (After({Modified}) /\ EvReserved /\ EvRouted)
          => /\ EvID \notin DOMAIN k.services
             /\ ListsOf(k, EvPrev.handler) = {}

\* a Modified event with a path under the prefix has removed a route
C12_Witness ==
    /\ After({Modified})
    /\ EvReserved
    /\ EvRouted
    /\ EvID \notin DOMAIN k.services
    /\ EvPrev.Path \notin DOMAIN k.pathHandlers

\* the decimal numeral of an integer, as %d prints it
RECURSIVE Numeral(_)
Numeral(n) ==
    IF n < 0 THEN <<"-">> \o Numeral(0 - n)
    ELSE IF n < 10
    THEN <<CHOOSE c \in {"0", "1", "2", "3", "4", "5", "6", "7", "8", "9"} :
              DigitVal(c) = n>>
    ELSE Numeral(n \div 10) \o Numeral(n % 10)

RECURSIVE StripZeros(_)
StripZeros(s) ==
    IF Len(s) > 1 /\ Head(s) = "0" THEN StripZeros(Tail(s)) ELSE s

\* the numeral of the integer that a signed decimal string denotes
Canonical(s) ==
    LET d == StripZeros(Unsigned(s))
    IN  IF s[1] = "-" /\ d # <<"0">> THEN <<"-">> \o d ELSE d

\* the last event installed a route computed from its object
EvInstalled ==
    /\ After({Added, Modified})
    /\ EvRoute # NilEndpoint
    /\ EvID \in DOMAIN k.services

EvHasPort == HasAnnotation(ev.Object, SvcProxyAnnotationPort)
EvPort == ev.Object.Annotations[SvcProxyAnnotationPort]

\* the port that is selected without port annotation: the single declared
\* port if it is not 80, else none (-1)
AutomaticPort(svc) ==
    IF Len(svc.Ports) = 1 /\ svc.Ports[1] # DefaultHTTPPort
    THEN svc.Ports[1] ELSE -1

\* C13: the port of a route is the integer of the port annotation if there
\* is one that parses as an integer; without port annotation it is the
\* single declared port if that is not 80, and unset (-1) otherwise.
\* (Violated: the integer is cut to 32 bits, "4294967376" gives port 80.)
C13_PortResolution ==
    EvInstalled =>
        /\ (EvHasPort /\ AtoiOk(EvPort))
              => Numeral(k.services[EvID].Port) = Canonical(EvPort)
        /\ ~EvHasPort => k.services[EvID].Port = AutomaticPort(ev.Object)

\* C14: a port annotation that does not parse as an integer is ignored:
\* the port of the route is the port that is selected without annotation.
\* (Violated: getServicePort returns "unset" without looking at the
\* declared ports.)
C14_MalformedPortFallsBack ==
    (EvInstalled /\ EvHasPort /\ ~AtoiOk(EvPort))
        => k.services[EvID].Port = AutomaticPort(ev.Object)

\* the last step completed an event of the endpoint channel, or of the
\* service channel, of the given types
AfterEndpoints(types) ==
    /\ Idle
    /\ ev.Type \in types
    /\ "Subsets" \in DOMAIN ev.Object

AfterService(types) ==
    /\ Idle
    /\ ev.Type \in types
    /\ "Annotations" \in DOMAIN ev.Object

\* no pod of the list has a name less than the name of a pod before it
Sorted(list) ==
    \A i, j \in 1..Len(list) :
       i < j => ~StringLess(list[j].PodName, list[i].PodName)

\* the addresses of an Endpoints object, ready and not ready
AddressesOf(obj) ==
    UNION {{obj.Subsets[s].Addresses[i] : i \in 1..Len(obj.Subsets[s].Addresses)}
              \cup {obj.Subsets[s].NotReadyAddresses[i] :
                       i \in 1..Len(obj.Subsets[s].NotReadyAddresses)} :
           s \in 1..Len(obj.Subsets)}

\* the pod list of the service of the last event
EvPods == k.endpoints[EvID].endpoints

\* C15: the pod list of every EndpointSet is sorted by pod name, and after
\* an Added or Modified event of the endpoint channel the list has one pod
\* for every address of the object, ready or not ready, of any subset (the
\* addresses of an object of the model are distinct).
C15_SortedPodList ==
    /\ \A id \in DOMAIN k.endpoints : Sorted(k.endpoints[id].endpoints)
    /\ AfterEndpoints({Added, Modified})
          => /\ EvID \in DOMAIN k.endpoints
             /\ Len(EvPods) = Cardinality(AddressesOf(ev.Object))
             /\ {EvPods[i].IP : i \in 1..Len(EvPods)}
                   = {a.IP : a \in AddressesOf(ev.Object)}

\* "foo-xyz" ready and "foo-aaa" not ready: index 0 is "foo-aaa"
C15_Witness ==
    /\ AfterEndpoints({Added})
    /\ ev.Object.Subsets
          = <<Subset(<<AddressXyz>>, << >>), Subset(<< >>, <<AddressAaa>>)>>
    /\ Len(EvPods) = 2
    /\ EvPods[1].PodName = AddressAaa.TargetRef.Name
    /\ EvPods[1].IP = AddressAaa.IP
    /\ EvPods[2].PodName = AddressXyz.TargetRef.Name

\* C16: a Deleted event of the endpoint channel for a service that has an
\* EndpointSet leaves the set in the table with an empty pod list and with
\* the port it had; no other set is touched.
C16_EndpointsDeleted ==
    (AfterEndpoints({Deleted}) /\ EvID \in DOMAIN pre.endpoints)
        => /\ DOMAIN k.endpoints = DOMAIN pre.endpoints
           /\ EvPods = << >>
           /\ k.endpoints[EvID].Port = pre.endpoints[EvID].Port
           /\ \A id \in DOMAIN k.endpoints \ {EvID} :
                 k.endpoints[id] = pre.endpoints[id]

\* the pods of a service with an enabled port were deleted
C16_Witness ==
    /\ AfterEndpoints({Deleted})
    /\ EvID \in DOMAIN pre.endpoints
    /\ Len(pre.endpoints[EvID].endpoints) = 2
    /\ pre.endpoints[EvID].Port = 8080
    /\ k.endpoints[EvID].Port = 8080
    /\ EvPods = << >>

\* the endpoint-port annotation of the last event is absent, is no
\* unsigned integer, or is above 65535
EvEndpointPortUnusable ==
    \/ ~HasAnnotation(ev.Object, SvcProxyAnnotationEndpoint)
    \/ ~ParseUintSyntaxOk(ev.Object.Annotations[SvcProxyAnnotationEndpoint])
    \/ DecimalUpTo16(ev.Object.Annotations[SvcProxyAnnotationEndpoint], 0) > MaxUint16

\* C17: after a Deleted event of the service channel, and after an Added
\* or Modified event without usable endpoint-port annotation, the service
\* has no EndpointSet or one with port 0; an EndpointSet that was in the
\* table is still there with its pod list.
\* (Violated: addEndpointPort returns without writing, so an Added event
\* leaves an enabled port enabled.)
C17_SubRoutingDisabled ==
    (\/ AfterService({Deleted})
     \/ AfterService({Added, Modified}) /\ EvEndpointPortUnusable)
        => /\ EvID \in DOMAIN k.endpoints => k.endpoints[EvID].Port = 0
           /\ EvID \in DOMAIN pre.endpoints
                 => /\ EvID \in DOMAIN k.endpoints
                    /\ EvPods = pre.endpoints[EvID].endpoints

\* the last step was a request for a pod, and it was forwarded
PodRequest == resp.kind = "serveEndpoint"
Forwarded == PodRequest /\ resp.status # StatusNotFound

\* the segments of the path of the last request, its key and its index
RespParts == SplitN(Tail(resp.Path), 5)
RespKey == EndpointKey(RespParts)
RespIndex == DecimalUpTo16(RespParts[4], 0)

\* the number of "/" of s
Slashes(s) == Cardinality({i \in 1..Len(s) : s[i] = "/"})

\* C18: a request for a pod is answered 404 if and only if its path has
\* fewer than five segments, or the index segment is no string of decimal
\* digits, or the key has no EndpointSet, or the port of the set is 0, or
\* the index is not less than the length of the pod list.
C18_NotFoundCases ==
    PodRequest =>
        (resp.status = StatusNotFound
            <=> \/ Slashes(Tail(resp.Path)) < 4
                \/ RespParts[4] = << >>
                \/ \E i \in 1..Len(RespParts[4]) : ~IsDigit(RespParts[4][i])
                \/ RespKey \notin DOMAIN pre.endpoints
                \/ pre.endpoints[RespKey].Port = 0
                \/ RespIndex >= Len(pre.endpoints[RespKey].endpoints))

\* a well-formed request for a pod of the list was answered 404 because the
\* port of the set is 0
C18_Witness ==
    /\ PodRequest
    /\ resp.status = StatusNotFound
    /\ Slashes(Tail(resp.Path)) >= 4
    /\ ParseUintSyntaxOk(RespParts[4])
    /\ RespKey \in DOMAIN pre.endpoints
    /\ pre.endpoints[RespKey].Port = 0
    /\ RespIndex < Len(pre.endpoints[RespKey].endpoints)

\* C19: a request for a pod that is forwarded goes to the IP of the pod at
\* position index of the pod list and to the port of the EndpointSet, as
\* they are when the request is served.
\* (Violated: the handler of a pod is built at the first request for it and
\* kept; it goes to the port that the set had then.)
C19_ForwardedToCurrentPod ==
    Forwarded =>
        resp.backend.Host
            = HostPort(pre.endpoints[RespKey].endpoints[RespIndex + 1].IP,
                       pre.endpoints[RespKey].Port)

\* the position of the n-th "/" of s
NthSlash(s, n) ==
    CHOOSE i \in 1..Len(s) :
        /\ s[i] = "/"
        /\ Cardinality({j \in 1..(i - 1) : s[j] = "/"}) = n - 1

\* C20: the path of a forwarded request for a pod is the path of the
\* request from its fifth "/" on, i.e. without
\* /endpoint/<namespace>/<service>/<index>; it is "/" if nothing follows.
C20_PrefixStripped ==
    Forwarded =>
        resp.backend.Path = SubSeq(resp.Path, NthSlash(resp.Path, 5), Len(resp.Path))

\* .../foo/0/debug/varz was forwarded as /debug/varz
C20_Witness ==
    /\ Forwarded
    /\ resp.Path = <<"/", "e", "n", "d", "p", "o", "i", "n", "t", "/", "d", "e", "f", "a", "u", "l", "t", "/", "f", "o", "o", "/", "0", "/", "d", "e", "b", "u", "g", "/", "v", "a", "r", "z">>
    /\ resp.backend.Path = <<"/", "d", "e", "b", "u", "g", "/", "v", "a", "r", "z">>

\* the last request went to the handler of a route; RespRoute is the
\* endpoint that the director of that handler was built for
ToRoute == Routed /\ "backend" \in DOMAIN resp
RespRoute == closures[resp.handler]

\* the path of the last request with a "/" added is the path of a route
\* with a map, and no registered path is a prefix of the request path
SlashMissing(id) ==
    /\ Routed
    /\ k.services[id].Path = resp.Path \o <<"/">>
    /\ k.services[id].Map # EmptyString
    /\ k.services[id].handler \in Elems(ListAt(k.pathHandlers, k.services[id].Path))
    /\ Prefixes(k, resp.Path) = {}

\* the backend path of a request that went to a route with a map is the map
\* followed by the request path without the matched path
MapReplacesPrefix ==
    (ToRoute /\ RespRoute.Map # EmptyString)
        => /\ HasPrefix(resp.Path, resp.match)
           /\ resp.backend
                 = RespRoute.Map \o SubSeq(resp.Path, Len(resp.match) + 1, Len(resp.Path))

\* C21 as claimed: the backend path is the map followed by the request path
\* without the matched path, and a request for the path of a route without
\* its trailing slash ("/foo" for path "/foo/", map "/bar/") goes to the
\* backend of that route as the map ("/bar/").
\* (Violated: "/foo/" is no prefix of "/foo"; the request goes to the
\* default handler.)
C21_PathRemap ==
    /\ MapReplacesPrefix
    /\ \A id \in DOMAIN k.services :
          SlashMissing(id)
             => /\ resp.handler = k.services[id].handler
                /\ ToRoute
                /\ resp.backend = k.services[id].Map

\* C21, amended: the backend path is the map followed by the request path
\* without the matched path; a request for the path of a route without its
\* trailing slash does not match the route and goes to the default handler
\* when no registered path is a prefix of it.
C21_PathRemapOfMatched ==
    /\ MapReplacesPrefix
    /\ \A id \in DOMAIN k.services :
          SlashMissing(id) => resp.handler = defaultHandler /\ ~ToRoute

\* path "/foo/", map "/bar/": the request /foo/x went to the backend as
\* /bar/x
C21_Witness ==
    /\ ToRoute
    /\ resp.Path = <<"/", "f", "o", "o", "/", "x">>
    /\ RespRoute.Path = PathFoo
    /\ RespRoute.Map = MapBar
    /\ resp.backend = <<"/", "b", "a", "r", "/", "x">>

\* the proxy after the Added event that is being processed
AfterAdd ==
    addEndpointPort(serviceAddLocked(k, ev.Object, newProxyHandler(pre)),
                    ev.Object)

\* the answer of the last request is the answer of a lookup in the tables kk
AnswerOf(kk) ==
    \E keys \in KeyOrders(kk.pathHandlers) :
        Dispatch(kk, resp.Path, keys) = resp

\* C24: a lookup that runs while a service event is being processed is
\* answered from the tables as they were before the event or as they are
\* after it.
\* (Violated: serviceAdd deletes the handler list of the path at line 323,
\* before the lock is taken and the new handler appended.)
C24_AllOrNothing ==
    (pc = "serviceAdd" /\ resp # NoResponse)
        => (AnswerOf(pre) \/ AnswerOf(AfterAdd))

\* the last step resolved a request
Served == resp # NoResponse

\* C27: a request for one of the two status pages is answered by that status
\* page, and a request whose path starts with "/endpoint/" by serveEndpoint;
\* neither goes to a handler of a route or to the default handler, whatever
\* paths are registered.
C27_ResolutionOrder ==
    Served
        => /\ resp.Path = serviceDiscoveryPage
                => resp.kind = "serviceStatus" /\ resp.handler = NilHandler
           /\ resp.Path = endpointDiscoveryPage
                => resp.kind = "endpointStatus" /\ resp.handler = NilHandler
           /\ HasPrefix(resp.Path, endpointPath)
                => resp.kind = "serveEndpoint" /\ resp.handler = NilHandler

\* a request for a pod was resolved by serveEndpoint while "/endpoint/" and
\* "/" were registered paths with a handler
C27_Witness ==
    /\ Served
    /\ HasPrefix(resp.Path, endpointPath)
    /\ resp.kind = "serveEndpoint"
    /\ {PathRoot, endpointPath} \subseteq Prefixes(k, resp.Path)
    /\ \A p \in Prefixes(k, resp.Path) : k.pathHandlers[p] # << >>

\* C22: a task that is forwarding a request to a backend, by the handler of
\* a route or by the handler of a pod, does not hold the lock of the proxy.
C22_NoLockWhileForwarding ==
    \A t \in RequestTasks : tasks[t].pc \in ForwardPositions => lock # t

\* one request is with the backend of a route and one with a pod while the
\* watch task holds the lock and applies an event
C22_Witness ==
    /\ At("request1", "ServeHTTP:201")
    /\ tasks["request1"].handler \in 1..MaxHandlers
    /\ At("request2", "serveEndpoint:170")
    /\ lock = "watch"
    /\ At("watch", "serviceChange:368")

\* C23: every statement that reads or writes k.services, k.pathHandlers or
\* k.endpoints is executed by a task that holds the lock, and no request
\* task is about to read a table that the watch task is about to write.
\* (Violated: serviceStatus and endpointStatus read the tables without the
\* lock, and serviceAdd deletes from k.pathHandlers at line 323 before it
\* takes the lock.)
C23_TablesLockGuarded ==
    /\ \A t \in Tasks : tasks[t].pc \in TablePositions => lock = t
    /\ \A t \in RequestTasks : ~Overlap(t)

\* the watch task executes the statement of setEndpointList that replaces
\* the list of the EndpointSet `key`
ReplacesList(key) ==
    /\ At("watch", "setEndpointList:463")
    /\ tasks'["watch"].pc = Following("setEndpointList:463")
    /\ SvcID(tasks["watch"].e.Object) = key

\* getEndpointWithHandler returns to the task t the podEndpoint `id` of the
\* EndpointSet `key`
Returns(t, key, id) ==
    /\ At(t, "getEndpointWithHandler:134")
    /\ tasks'[t].pc = Following("getEndpointWithHandler:134")
    /\ tasks[t].key = key
    /\ tasks[t].id = id
    /\ k.endpoints[key].Port > 0

\* C29: the handler of a podEndpoint, once built, stays the handler of that
\* entry and is the handler that every later request for the pod gets,
\* however the requests interleave, until setEndpointList replaces the
\* list; a handler is built only for an entry that has none, from the
\* scheme of the request that is being served, the IP of the entry and the
\* port of the set; the entries of a list that setEndpointList has just
\* stored have no handler.
C29_HandlerBuiltOnce ==
    [][\A key \in DOMAIN k.endpoints :
         LET old == k.endpoints[key].endpoints
             new == k'.endpoints[key].endpoints
         IN  IF ReplacesList(key)
             THEN \A i \in 1..Len(new) : new[i].handler = NilProxy
             ELSE /\ Len(new) = Len(old)
                  /\ \A i \in 1..Len(old) :
                        /\ old[i].handler # NilProxy
                              => new[i].handler = old[i].handler
                        /\ (old[i].handler = NilProxy /\ new[i].handler # NilProxy)
                              => \E t \in RequestTasks :
                                    /\ Returns(t, key, i - 1)
                                    /\ new[i].handler
                                          = makeEndpointProxy(tasks[t].scheme,
                                               HostPort(old[i].IP, k.endpoints[key].Port))
                        /\ \A t \in RequestTasks :
                              Returns(t, key, i - 1)
                                 => /\ tasks'[t].handler = new[i].handler
                                    /\ new[i].handler # NilProxy]_vars

\* two requests for the same pod, one with a scheme and one without, are
\* with the backend by the one handler of the entry, which was built before
\* the port of the set changed
C29_Witness ==
    /\ At("request1", "serveEndpoint:170")
    /\ At("request2", "serveEndpoint:170")
    /\ tasks["request1"].scheme # tasks["request2"].scheme
    /\ tasks["request1"].key = tasks["request2"].key
    /\ tasks["request1"].id = tasks["request2"].id
    /\ tasks["request1"].handler = tasks["request2"].handler
    /\ LET data == k.endpoints[tasks["request1"].key]
       IN  /\ Len(data.endpoints) > tasks["request1"].id
           /\ data.endpoints[tasks["request1"].id + 1].handler
                 = tasks["request1"].handler
           /\ data.Port > 0
           /\ tasks["request1"].handler.host
                 # HostPort(data.endpoints[tasks["request1"].id + 1].IP, data.Port)

\* the task is not inside a lookup or the application of an event: it is
\* idle, or its request is with a backend, or the process was stopped
Resting(t) == tasks[t].pc \in {"idle", Fatal} \cup ForwardPositions

\* the statements between k.Lock() and k.Unlock()
CriticalPositions == TablePositions \cup UnlockPositions

\* C30: no task calls k.Lock() while it holds the lock; the task that holds
\* the lock is between k.Lock() and k.Unlock(), at a statement that reads or
\* writes the tables or at the k.Unlock(); and every lookup and every
\* application of an event comes to its end.
C30_NoBlocking ==
    /\ [](\A t \in Tasks : tasks[t].pc \in LockPositions => lock # t)
    /\ [](lock # Unlocked => tasks[lock].pc \in CriticalPositions \cup {Fatal})
    /\ \A t \in Tasks : [](~Resting(t) => <>Resting(t))

\* serviceChange called serviceDelete, which holds the lock, while a lookup
\* waits for it
C30_Witness ==
    /\ tasks["watch"].pc = "serviceDelete:344"
    /\ tasks["watch"].e.Type = Modified
    /\ lock = "watch"
    /\ At("request1", "ServeHTTP:192")

Recovering == watch.state = "recovering"

\* run has two new watchers
NewWatchers(w) ==
    \A c \in Channels : w.queue[c] = << >> /\ w.open[c]

\* C25: after runOnce has received from a closed channel no event is
\* applied until run has new watchers; run makes at most 3 attempts to
\* create them; the first attempt that succeeds takes run back to runOnce
\* with two new watchers; run ends the process if and only if 3 attempts
\* have failed; a closed channel leads to the attempts, and the attempts end
\* with run watching or with the end of the process.
C25_BoundedRecovery ==
    /\ [](/\ watch.failures <= 3
          /\ Recovering => watch.failures < 3
          /\ watch.state = "fatal" <=> watch.failures = 3)
    /\ [][/\ Recovering
             => /\ k' = k
                /\ watch'.applied = watch.applied
                /\ watch'.state = "watching"
                      => NewWatchers(watch') /\ watch'.failures = watch.failures
                /\ watch'.state # "watching"
                      => watch'.failures = watch.failures + 1
          /\ (watch.state = "watching" /\ watch'.state # "watching")
                => /\ watch'.state = "recovering"
                   /\ watch'.failures = 0
                   /\ \E c \in Channels : ~watch.open[c]
          /\ watch.state = "fatal" => watch'.state = "fatal"]_vars
    /\ \A c \in Channels :
          (watch.state = "watching" /\ ~watch.open[c]) ~> Recovering
    /\ Recovering ~> (watch.state \in {"watching", "fatal"})

\* run watches again after two failed attempts and a third that succeeded,
\* with events applied before the channel closed
C25_Witness ==
    /\ watch.state = "watching"
    /\ watch.failures = 2
    /\ NewWatchers(watch)
    /\ \E c \in Channels : watch.applied[c] > 0

\* the event number n of channel c was sent and not yet received
Pending(c, n) ==
    \E i \in 1..Len(watch.queue[c]) : watch.queue[c][i].seq = n

\* the events of channel c that wait have the numbers that follow the
\* number of the event received last, in the order of sending
InOrder(w, c) ==
    \A i \in 1..Len(w.queue[c]) :
       w.queue[c][i].seq = ((w.applied[c] + i - 1) % MaxSeq) + 1

\* C28: the events of a channel wait in the order they were sent; when run
\* watches and no handler runs, an event of either channel that waits can
\* be received, whatever the other channel holds; the event that is
\* received is the one that was sent first among those of the channel that
\* wait, and it is
\* received when the handler of the event before it has returned; when the
\* handler of an event returns, the proxy is what the handler makes of the
\* proxy that it was called with; and the handler of an event that was
\* sent returns at some time unless a channel is closed, also when the
\* other channel has an event waiting at every time.
C28_FairFIFO ==
    /\ [](\A c \in Channels : InOrder(watch, c))
    /\ [](\A c \in Channels :
            (watch.state = "watching" /\ pc = "idle" /\ watch.queue[c] # << >>)
               => ENABLED Receive(c))
    /\ [][\A c \in Channels :
            watch'.applied[c] # watch.applied[c]
               => /\ watch.queue[c] # << >>
                  /\ pc = "idle"
                  /\ watch'.applied[c] = watch.queue[c][1].seq
                  /\ watch'.queue[c] = Tail(watch.queue[c])
                  /\ ev' = watch.queue[c][1].event
                  /\ pre' = k]_vars
    /\ [][(pc' = "idle" /\ (pc # "idle" \/ watch'.applied # watch.applied))
             => k' = IF IsEndpointsEvent(ev')
                     THEN runOnceEndpoint(pre', ev')
                     ELSE runOnceService(pre', ev', newProxyHandler(pre'))]_vars
    /\ \A c \in Channels : \A n \in 1..MaxSeq :
          [](Pending(c, n)
                => <>(\/ watch.applied[c] = n /\ pc = "idle"
                      \/ \E d \in Channels : ~watch.open[d]))

\* more service events than can wait at a time were received, one after
\* the other, while the events of the endpoint channel were waiting; a
\* service event waits again, and both channels are open
C28_Witness ==
    /\ watch.state = "watching"
    /\ \A c \in Channels : watch.open[c]
    /\ watch.failures = 0
    /\ watch.applied["services"] = MaxSeq
    /\ watch.queue["services"] # << >>
    /\ Len(watch.queue["endpoints"]) = MaxEvents
    /\ watch.applied["endpoints"] = 0
    /\ pc = "idle"

\* value[i..j] is a placeholder ${NAME}
IsPlaceholder(value, i, j) ==
    /\ i + 3 <= j
    /\ j <= Len(value)
    /\ value[i] = "$"
    /\ value[i + 1] = "{"
    /\ value[j] = "}"
    /\ value[i + 2] \in Letters
    /\ \A m \in (i + 3)..(j - 1) : IsWord(value[m])

\* value from position i on with every placeholder whose name is a key of
\* vars replaced by the value of the key, read from left to right, and
\* nothing else changed
RECURSIVE Substituted(_, _, _)
Substituted(vmap, value, i) ==
    IF i > Len(value) THEN << >>
    ELSE IF \E j \in i..Len(value) : IsPlaceholder(value, i, j)
    THEN LET j == CHOOSE j \in i..Len(value) : IsPlaceholder(value, i, j)
             name == SubSeq(value, i + 2, j - 1)
         IN  (IF name \in DOMAIN vmap THEN vmap[name] ELSE SubSeq(value, i, j))
                 \o Substituted(vmap, value, j + 1)
    ELSE <<value[i]>> \o Substituted(vmap, value, i + 1)

\* C26: the result of ExpandVars is its argument with every placeholder
\* ${NAME} whose NAME is a key of vars replaced by the value of the key, of
\* whatever length, and with the placeholders of other names and all other
\* text as they were; the text put in is not expanded again.
C26_ExpandVars ==
    subst.called => subst.result = Substituted(subst.vars, subst.value, 1)

\* two placeholders were replaced by values of other lengths, one of them a
\* placeholder itself, and a placeholder with an unknown name was kept
C26_Witness ==
    /\ subst.called
    /\ subst.vars = (NameX :> <<"$", "{", "Y", "}">> @@ NameY :> <<"b", "a", "r", "b", "a", "r">>)
    /\ subst.value = <<"$", "{", "X", "}", "$", "{", "N", "A", "M", "E", "}", "$", "{", "Y", "}">>
    /\ subst.result = <<"$", "{", "Y", "}", "$", "{", "N", "A", "M", "E", "}", "b", "a", "r", "b", "a", "r">>

\* C31: in every state in which the dispatcher can scan pathHandlers (every
\* state: the critical sections of serviceDelete and serviceChange are
\* single steps, and the write of serviceAdd before its k.Lock() is a step
\* of its own), no key of pathHandlers has an empty handler list, and no
\* request was resolved by taking the first element of an empty list.
C31_NoEmptyList ==
    /\ \A p \in DOMAIN k.pathHandlers : Len(k.pathHandlers[p]) > 0
    /\ resp.kind = "handler" => resp.handler # indexPanic

\* the last event removed the only handler of a list, by serviceDelete or
\* by serviceChange with another path, and the key of the list is gone
C31_Witness ==
    /\ After({Deleted, Modified})
    /\ EvRouted
    /\ pre.pathHandlers[EvPrev.Path] = <<EvPrev.handler>>
    /\ EvPrev.Path \notin DOMAIN k.pathHandlers
    /\ DOMAIN k.pathHandlers # {}

\* C32: no request whose path begins with SvcProxyHTTPPath is dispatched to
\* the handler of a service: it is answered by a status page or it goes to
\* the default handler.  (Violated: makeSvcEndpoint refuses the paths that
\* begin with SvcProxyHTTPPath, and a route with path "/" or
\* "/k8s-svc-proxy" is a prefix of every such request; only the two status
\* pages themselves are answered before the routes are looked at.)
C32_ReservedNeverProxied ==
    (Served /\ HasPrefix(resp.Path, SvcProxyHTTPPath))
        => (resp.kind = "handler" => resp.handler = defaultHandler)

\* C34: an Added or Modified event whose path annotation is the empty
\* string leaves the service in services with the empty path and its
\* handler in the handler list of the empty path; and no request is
\* dispatched to a handler of that list: a request that is resolved against
\* the routes and has no registered prefix other than the empty path goes
\* to the default handler.
C34_EmptyPathNeverSelected ==
    /\ (After({Added, Modified}) /\ EvRoute # NilEndpoint
           /\ EvRoute.Path = EmptyString)
          => /\ EvID \in DOMAIN k.services
             /\ k.services[EvID].Path = EmptyString
             /\ EmptyString \in DOMAIN k.pathHandlers
             /\ k.services[EvID].handler \in Elems(k.pathHandlers[EmptyString])
    /\ Routed =>
          /\ resp.handler \notin Elems(ListAt(k.pathHandlers, EmptyString))
          /\ Prefixes(k, resp.Path) \subseteq {EmptyString}
                => resp.handler = defaultHandler

\* a route with the empty path is stored, it is the only registered prefix
\* of the request, and the request went to the default handler
C34_Witness ==
    /\ Routed
    /\ \E id \in DOMAIN k.services :
          /\ k.services[id].Path = EmptyString
          /\ k.pathHandlers[EmptyString] = <<k.services[id].handler>>
    /\ Prefixes(k, resp.Path) = {EmptyString}
    /\ resp.handler = defaultHandler

\* the last request went to a handler that was built by newProxyHandler
Directed == Routed /\ "endpoint" \in DOMAIN resp

\* C33: in every state, every handler of the list pathHandlers[P] was built
\* for an endpoint whose Path is P; and when a request went to such a
\* handler, the path of the request starts with the Path of that endpoint,
\* so that the director did not slice out of range.
C33_HandlerBuiltForPath ==
    /\ \A p \in DOMAIN k.pathHandlers :
          \A h \in Elems(k.pathHandlers[p]) :
             /\ h \in DOMAIN closures
             /\ closures[h].Path = p
    /\ Directed =>
          /\ resp.endpoint.Path = resp.match
          /\ HasPrefix(resp.Path, resp.endpoint.Path)
          /\ resp.backend # slicePanic

\* a request went to a handler with a map that is the handler of no route
\* of services any more; its director replaced the path it was built for
C33_Witness ==
    /\ Directed
    /\ Owners(k, resp.handler) = {}
    /\ resp.endpoint.Map = MapBar
    /\ resp.endpoint.Path = PathFoo
    /\ resp.Path = PathFoo \o <<"x">>
    /\ resp.backend = MapBar \o <<"x">>

\* run reads the watches that it opened again, and every event that the
\* service channel was sent has been applied: an Added event for every
\* service that existed when the watch was opened, and an event for every
\* change since
Resynced ==
    /\ cluster.relisted
    /\ Up
    /\ watch.queue["services"] = << >>
    /\ pc = "idle"

\* the routes computed from the services that exist
ClusterRoutes ==
    {<<SvcID(cluster.services[n]), makeSvcEndpoint(cluster.services[n])>> :
        n \in {x \in DOMAIN cluster.services :
                  makeSvcEndpoint(cluster.services[x]) # NilEndpoint}}

\* C35: when run has opened the watches again and the new service channel
\* has delivered an Added event for every service that exists, the routes
\* of services are the routes computed from the services that exist, and
\* pathHandlers holds the handlers of these routes and no other, each in
\* the list of its path.  (Violated: run keeps the tables, no Deleted event
\* comes for a service that was deleted while no watch was read, and
\* serviceAdd leaves the handler of the old path of a service in its list.)
C35_ResyncedRoutes ==
    Resynced =>
        /\ {<<id, WithHandler(k.services[id], NilHandler)>> : id \in DOMAIN k.services}
              = ClusterRoutes
        /\ DOMAIN k.pathHandlers = ClaimedPaths(k)
        /\ \A p \in DOMAIN k.pathHandlers :
              Elems(k.pathHandlers[p])
                 = {k.services[id].handler : id \in Claimants(k, p)}

=============================================================================
